---- MODULE Spec2Model ----
(***************************************************************************)
(* State-machine model of the Aetheria real-time backend core:             *)
(*   - TaskPoller / run_autonomous_task   (task_poller.py, task_executor.py)*)
(*   - ConnectionManager                  (session_service.py)             *)
(*   - remote-command bridge              (sockets.py + waiting side)      *)
(*   - run_agent_and_stream               (agent_runner.py)                *)
(*   - on_send_message                    (sockets.py)                     *)
(* Each component has its own next-state relation and specification; the   *)
(* variables of the other components stay at their initial values.         *)
(***************************************************************************)
EXTENDS Integers, Sequences, FiniteSets, TLC

VARIABLES
    \* ---- persisted task table (supabase "tasks") ----
    taskStatus,        \* task id -> "pending" | "in_progress" | "completed" | "cancelled" | "absent"
    taskWork,          \* task id -> TRUE when a task_work artifact has been saved
    \* ---- TaskPoller, one instance per scheduler process ----
    running,           \* poller -> self.running
    pollPc,            \* poller -> loop thread -> position of that _poll_loop thread
    pending_tasks,     \* poller -> loop thread -> rows of its last query still to be iterated
    task_id,           \* poller -> loop thread -> the row it is claiming, or NoTask
    processing_tasks,  \* poller -> self.processing_tasks
    exec,              \* <<poller, execution thread, task>> -> position of that thread
    claims,            \* number of claim writes made, over all pollers (bounded)
    \* ---- shared Redis store of ConnectionManager ----
    redisSession,      \* conversation id -> key "session:<id>": exists, JSON value, TTL
    userIndex,         \* user id -> key "user_sessions:<id>": member set, TTL
    teardowns,         \* sandbox id -> number of DELETE /sessions/<id> requests issued
    sandboxApiUrl,     \* config.SANDBOX_API_URL is set
    nextSandbox,       \* next sandbox id the sandbox service hands out
    opsBegun,          \* number of ConnectionManager calls begun (bounded)
    call,              \* worker -> the ConnectionManager call it is executing
    storeFaults,       \* Redis commands that raised, calls that raised to their caller, last count answered
    \* ---- remote-command bridge ----
    redisClient,       \* redis_client_instance is set
    bridgePc,          \* request id -> position of the tool call waiting for its result
    subscriptions,     \* pub/sub channels with a live subscription
    inbox,             \* request id -> messages delivered to its subscription, oldest first
    pushed,            \* request ids whose command has been pushed to the client
    held,              \* request id -> the result its call is about to return
    returned,          \* request id -> the results returned to the caller, in order
    published,         \* request id -> the results the client sent that were published for it
    dropped,           \* request ids of results the handler took and did not publish
    replies,           \* number of browser-command-result events handled (bounded)
    \* ---- run_agent_and_stream, one turn ----
    streamPc,          \* position of the run: setup, drain, metrics, finished
    consumed,          \* the chunks agent.run has yielded so far, in order
    emitted,           \* the events emitted to the client's room, in order
    slept,             \* for each emitted event: socketio.sleep(0) followed the emit
    run_output,        \* the local run_output
    request_logs,      \* rows inserted into request_logs
    \* ---- on_send_message and the runs it spawns ----
    handled,           \* number of send_message events handled (bounded)
    spawned,           \* runs spawned and not yet begun: authenticated user, conversation
    agentRuns,         \* agents built by run_agent_and_stream: authenticated user, conversation, user_id
    terminated,        \* sessions the handler terminated: authenticated user, conversation, owner
    received,          \* the send_message payload the handler took last
    handlerEmits       \* events the handler emitted to the sender, counted by name

taskVars == <<taskStatus, taskWork, running, pollPc, pending_tasks, task_id,
              processing_tasks, exec, claims>>

sessionVars == <<redisSession, userIndex, teardowns, sandboxApiUrl, nextSandbox,
                 opsBegun, call, storeFaults>>

bridgeVars == <<redisClient, bridgePc, subscriptions, inbox, pushed, held, returned,
                published, dropped, replies>>

streamVars == <<streamPc, consumed, emitted, slept, run_output, request_logs>>

socketVars == <<handled, spawned, agentRuns, terminated, received, handlerEmits>>

vars == <<taskVars, sessionVars, bridgeVars, streamVars, socketVars>>

\* What a step of one component leaves alone.
notTaskVars == <<sessionVars, bridgeVars, streamVars, socketVars>>
notSessionVars == <<taskVars, bridgeVars, streamVars, socketVars>>
notBridgeVars == <<taskVars, sessionVars, streamVars, socketVars>>
notStreamVars == <<taskVars, sessionVars, bridgeVars, socketVars>>
notSocketVars == <<taskVars, bridgeVars, streamVars>>

(***************************************************************************)
(* Bounds of the model                                                     *)
(***************************************************************************)
NumPollers == 2
MaxClaims == 2
MaxLoops == 2

\* Task ids are opaque UUID strings; the rows of the table.
Tasks == {"task-a"}
Pollers == 1..NumPollers

\* The _poll_loop threads that may be alive at a time (threads are capped).
LoopIds == 1..MaxLoops

\* The execution threads of one poller (each claim write spawns at most one).
UnitIds == 1..MaxClaims

\* The local task_id of a loop thread that is not claiming a row.
NoTask == "none"

(***************************************************************************)
(* Task table                                                              *)
(***************************************************************************)
TaskStatuses == {"pending", "in_progress", "completed", "cancelled"}

\* .update({"status": s}).eq("id", t): an update filtered by id only; a row
\* that does not exist is matched by nothing.
UpdateStatusById(st, t, s) ==
    IF st[t] = "absent" THEN st ELSE [st EXCEPT ![t] = s]

\* .select(...).eq("status", "pending"): the ids of the pending rows.
SelectPending(st) == {t \in Tasks : st[t] = "pending"}

\* The claim write of _check_and_execute_pending_tasks: the status update
\* to in_progress, filtered by id.
ClaimWrite(st, t) == UpdateStatusById(st, t, "in_progress")

\* (A rollback that wrote completed instead of pending.)
RevertWriteCompletes(st, t) == UpdateStatusById(st, t, "completed")

\* The rollback write of run_autonomous_task's except handler.
RevertWrite(st, t) == UpdateStatusById(st, t, "pending")

\* TaskTools.mark_task_complete: update to completed, filtered by id and user.
MarkCompleteWrite(st, t) == UpdateStatusById(st, t, "completed")

TasksInit ==
    /\ taskStatus = [t \in Tasks |-> "pending"]
    /\ taskWork = [t \in Tasks |-> FALSE]
    /\ running = [p \in Pollers |-> FALSE]
    /\ pollPc = [p \in Pollers |-> [k \in LoopIds |-> "none"]]
    /\ pending_tasks = [p \in Pollers |-> [k \in LoopIds |-> {}]]
    /\ task_id = [p \in Pollers |-> [k \in LoopIds |-> NoTask]]
    /\ processing_tasks = [p \in Pollers |-> {}]
    /\ exec = [u \in Pollers \X UnitIds \X Tasks |-> "idle"]
    /\ claims = 0

(***************************************************************************)
(* TaskPoller                                                              *)
(***************************************************************************)
\* The _poll_loop threads of poller p that have not ended.
LiveLoops(p) == {k \in LoopIds : pollPc[p][k] # "none"}

\* The number of _poll_loop threads alive, over all pollers.
LoopsAlive == Cardinality({l \in Pollers \X LoopIds : pollPc[l[1]][l[2]] # "none"})

\* TaskPoller.start: no-op when `self.running`, else sets the flag and spawns
\* a new _poll_loop thread (the first free thread slot; threads are capped).
start(p) ==
    /\ ~running[p]
    /\ LoopsAlive < MaxLoops
    /\ running' = [running EXCEPT ![p] = TRUE]
    /\ \E k \in LoopIds \ LiveLoops(p) :
        /\ \A j \in LoopIds \ LiveLoops(p) : k <= j
        /\ pollPc' = [pollPc EXCEPT ![p][k] = "top"]
    /\ UNCHANGED <<taskStatus, taskWork, pending_tasks, task_id, processing_tasks, exec, claims>>
    /\ UNCHANGED notTaskVars

\* TaskPoller.stop: clears the flag and joins the thread for at most five
\* seconds; a loop thread sees the flag at its next test, after its sleep.
stop(p) ==
    /\ running[p]
    /\ running' = [running EXCEPT ![p] = FALSE]
    /\ UNCHANGED <<taskStatus, taskWork, pollPc, pending_tasks, task_id, processing_tasks, exec, claims>>
    /\ UNCHANGED notTaskVars

\* `while self.running` found false: the loop thread ends.
PollExit(p, k) ==
    /\ pollPc[p][k] = "top"
    /\ ~running[p]
    /\ pollPc' = [pollPc EXCEPT ![p][k] = "none"]
    /\ UNCHANGED <<taskStatus, taskWork, running, pending_tasks, task_id, processing_tasks, exec, claims>>
    /\ UNCHANGED notTaskVars

\* Where the for loop over the query result goes once `rest` is left: on to
\* the next row, or through time.sleep(poll_interval) back to the loop test.
AfterIter(rest) == IF rest = {} THEN "top" ELSE "iter"

\* One cycle begins: the query for pending rows succeeds.
PollQuery(p, k) ==
    /\ pollPc[p][k] = "top"
    /\ running[p]
    /\ pending_tasks' = [pending_tasks EXCEPT ![p][k] = SelectPending(taskStatus)]
    /\ pollPc' = [pollPc EXCEPT ![p][k] = AfterIter(SelectPending(taskStatus))]
    /\ UNCHANGED <<taskStatus, taskWork, running, task_id, processing_tasks, exec, claims>>
    /\ UNCHANGED notTaskVars

\* The query raises: caught (line 119), logged, the loop sleeps and tests again.
PollQueryFail(p, k) ==
    /\ pollPc[p][k] = "top"
    /\ running[p]
    /\ UNCHANGED <<taskStatus, taskWork, running, pollPc, pending_tasks, task_id, processing_tasks, exec, claims>>
    /\ UNCHANGED notTaskVars

\* A row whose id is in the guard set is skipped.
PollSkip(p, k, t) ==
    /\ pollPc[p][k] = "iter"
    /\ task_id[p][k] = NoTask
    /\ t \in pending_tasks[p][k]
    /\ t \in processing_tasks[p]
    /\ pending_tasks' = [pending_tasks EXCEPT ![p][k] = @ \ {t}]
    /\ pollPc' = [pollPc EXCEPT ![p][k] = AfterIter(pending_tasks[p][k] \ {t})]
    /\ UNCHANGED <<taskStatus, taskWork, running, task_id, processing_tasks, exec, claims>>
    /\ UNCHANGED notTaskVars

\* `if task_id in self.processing_tasks` found false: the loop goes on to
\* claim the row (the test and the add that follows are two steps of the
\* thread, with no lock around them).
PollNotProcessing(p, k, t) ==
    /\ pollPc[p][k] = "iter"
    /\ task_id[p][k] = NoTask
    /\ t \in pending_tasks[p][k]
    /\ t \notin processing_tasks[p]
    /\ task_id' = [task_id EXCEPT ![p][k] = t]
    /\ UNCHANGED <<taskStatus, taskWork, running, pollPc, pending_tasks, processing_tasks, exec, claims>>
    /\ UNCHANGED notTaskVars

\* The execution threads of poller p for task t that are not in use.
FreeUnits(p, t) == {x \in UnitIds : exec[<<p, x, t>>] = "idle"}

\* Guard add, claim write, execution thread spawned (the first one not in use).
ClaimTask(p, k, t) ==
    /\ pollPc[p][k] = "iter"
    /\ task_id[p][k] = t
    /\ claims < MaxClaims
    /\ claims' = claims + 1
    /\ processing_tasks' = [processing_tasks EXCEPT ![p] = @ \cup {t}]
    /\ taskStatus' = ClaimWrite(taskStatus, t)
    /\ \E x \in FreeUnits(p, t) :
        /\ \A y \in FreeUnits(p, t) : x <= y
        /\ exec' = [exec EXCEPT ![<<p, x, t>>] = "spawned"]
    /\ task_id' = [task_id EXCEPT ![p][k] = NoTask]
    /\ pending_tasks' = [pending_tasks EXCEPT ![p][k] = @ \ {t}]
    /\ pollPc' = [pollPc EXCEPT ![p][k] = AfterIter(pending_tasks[p][k] \ {t})]
    /\ UNCHANGED <<taskWork, running>>
    /\ UNCHANGED notTaskVars

\* (A claim-write failure that escaped the loop thread would end the loop.)
ClaimFailEndsLoop(p, k, t) ==
    /\ pollPc[p][k] = "iter"
    /\ task_id[p][k] = t
    /\ processing_tasks' = [processing_tasks EXCEPT ![p] = @ \ {t}]
    /\ task_id' = [task_id EXCEPT ![p][k] = NoTask]
    /\ pending_tasks' = [pending_tasks EXCEPT ![p][k] = {}]
    /\ pollPc' = [pollPc EXCEPT ![p][k] = "none"]
    /\ UNCHANGED <<taskStatus, taskWork, running, exec, claims>>
    /\ UNCHANGED notTaskVars

\* Guard add, then the claim write raises: the id is discarded from the guard
\* set, no thread is spawned, the loop continues with the next row.
ClaimFail(p, k, t) ==
    /\ pollPc[p][k] = "iter"
    /\ task_id[p][k] = t
    /\ processing_tasks' = [processing_tasks EXCEPT ![p] = @ \ {t}]
    /\ task_id' = [task_id EXCEPT ![p][k] = NoTask]
    /\ pending_tasks' = [pending_tasks EXCEPT ![p][k] = @ \ {t}]
    /\ pollPc' = [pollPc EXCEPT ![p][k] = AfterIter(pending_tasks[p][k] \ {t})]
    /\ UNCHANGED <<taskStatus, taskWork, running, exec, claims>>
    /\ UNCHANGED notTaskVars

(***************************************************************************)
(* run_autonomous_task inside _execute_task_wrapper                        *)
(***************************************************************************)
\* The row is fetched (.single()); it exists: the agent run begins.
ExecFetch(p, x, t) ==
    /\ exec[<<p, x, t>>] = "spawned"
    /\ taskStatus[t] # "absent"
    /\ exec' = [exec EXCEPT ![<<p, x, t>>] = "agent"]
    /\ UNCHANGED <<taskStatus, taskWork, running, pollPc, pending_tasks, task_id, processing_tasks, claims>>
    /\ UNCHANGED notTaskVars

\* No row: `if not response.data: return` (no status write).
ExecFetchNone(p, x, t) ==
    /\ exec[<<p, x, t>>] = "spawned"
    /\ taskStatus[t] = "absent"
    /\ exec' = [exec EXCEPT ![<<p, x, t>>] = "returned"]
    /\ UNCHANGED <<taskStatus, taskWork, running, pollPc, pending_tasks, task_id, processing_tasks, claims>>
    /\ UNCHANGED notTaskVars

\* The fetch raises (store unreachable, or .single() on no row).
ExecFetchRaise(p, x, t) ==
    /\ exec[<<p, x, t>>] = "spawned"
    /\ exec' = [exec EXCEPT ![<<p, x, t>>] = "raised"]
    /\ UNCHANGED <<taskStatus, taskWork, running, pollPc, pending_tasks, task_id, processing_tasks, claims>>
    /\ UNCHANGED notTaskVars

\* The agent run calls save_task_work.
AgentSaveWork(p, x, t) ==
    /\ exec[<<p, x, t>>] = "agent"
    /\ taskStatus[t] # "absent"
    /\ ~taskWork[t]
    /\ taskWork' = [taskWork EXCEPT ![t] = TRUE]
    /\ UNCHANGED <<taskStatus, running, pollPc, pending_tasks, task_id, processing_tasks, exec, claims>>
    /\ UNCHANGED notTaskVars

\* The agent run calls mark_task_complete.
AgentMarkComplete(p, x, t) ==
    /\ exec[<<p, x, t>>] = "agent"
    /\ taskStatus' = MarkCompleteWrite(taskStatus, t)
    /\ taskStatus' # taskStatus
    /\ UNCHANGED <<taskWork, running, pollPc, pending_tasks, task_id, processing_tasks, exec, claims>>
    /\ UNCHANGED notTaskVars

\* executor.run returns.
AgentReturn(p, x, t) ==
    /\ exec[<<p, x, t>>] = "agent"
    /\ exec' = [exec EXCEPT ![<<p, x, t>>] = "returned"]
    /\ UNCHANGED <<taskStatus, taskWork, running, pollPc, pending_tasks, task_id, processing_tasks, claims>>
    /\ UNCHANGED notTaskVars

\* executor.run (or the code after it) raises.
AgentRaise(p, x, t) ==
    /\ exec[<<p, x, t>>] = "agent"
    /\ exec' = [exec EXCEPT ![<<p, x, t>>] = "raised"]
    /\ UNCHANGED <<taskStatus, taskWork, running, pollPc, pending_tasks, task_id, processing_tasks, claims>>
    /\ UNCHANGED notTaskVars

\* except handler of run_autonomous_task: the rollback write succeeds.
ExecRevert(p, x, t) ==
    /\ exec[<<p, x, t>>] = "raised"
    /\ taskStatus' = RevertWrite(taskStatus, t)
    /\ exec' = [exec EXCEPT ![<<p, x, t>>] = "handled"]
    /\ UNCHANGED <<taskWork, running, pollPc, pending_tasks, task_id, processing_tasks, claims>>
    /\ UNCHANGED notTaskVars

\* The rollback write raises: logged (line 118), nothing else is done.
ExecRevertFail(p, x, t) ==
    /\ exec[<<p, x, t>>] = "raised"
    /\ exec' = [exec EXCEPT ![<<p, x, t>>] = "handled"]
    /\ UNCHANGED <<taskStatus, taskWork, running, pollPc, pending_tasks, task_id, processing_tasks, claims>>
    /\ UNCHANGED notTaskVars

\* (A wrapper whose finally left the id in the guard set.)
ExecFinishKeepsId(p, x, t) ==
    /\ exec[<<p, x, t>>] \in {"returned", "handled"}
    /\ exec' = [exec EXCEPT ![<<p, x, t>>] = "idle"]
    /\ UNCHANGED <<taskStatus, taskWork, running, pollPc, pending_tasks, task_id, processing_tasks, claims>>
    /\ UNCHANGED notTaskVars

\* finally of _execute_task_wrapper: the id leaves the guard set.
ExecFinish(p, x, t) ==
    /\ exec[<<p, x, t>>] \in {"returned", "handled"}
    /\ exec' = [exec EXCEPT ![<<p, x, t>>] = "idle"]
    /\ processing_tasks' = [processing_tasks EXCEPT ![p] = @ \ {t}]
    /\ UNCHANGED <<taskStatus, taskWork, running, pollPc, pending_tasks, task_id, claims>>
    /\ UNCHANGED notTaskVars

(***************************************************************************)
(* External actions on the task table (TaskTools of a chat session)        *)
(***************************************************************************)
\* update_task(status="cancelled") on a pending or in_progress task.
CancelTask(t) ==
    /\ taskStatus[t] \in {"pending", "in_progress"}
    /\ taskStatus' = [taskStatus EXCEPT ![t] = "cancelled"]
    /\ UNCHANGED <<taskWork, running, pollPc, pending_tasks, task_id, processing_tasks, exec, claims>>
    /\ UNCHANGED notTaskVars

\* delete_task: the row is removed.
DeleteTask(t) ==
    /\ taskStatus[t] # "absent"
    /\ taskStatus' = [taskStatus EXCEPT ![t] = "absent"]
    /\ taskWork' = [taskWork EXCEPT ![t] = FALSE]
    /\ UNCHANGED <<running, pollPc, pending_tasks, task_id, processing_tasks, exec, claims>>
    /\ UNCHANGED notTaskVars

(***************************************************************************)
(* ConnectionManager: the session store (session_service.py)               *)
(***************************************************************************)
\* Conversation, user and worker ids are opaque strings.
Convs == {"conv-a", "conv-b"}
Users == {"user-a", "user-b"}
Workers == {"w1", "w2"}

\* SESSION_TTL is 7200 s; the model counts TTLs in hours, one Tick an hour.
SESSION_TTL == 2
MAX_SANDBOX_IDS == 5
CLEANUP_BATCH_SIZE == 100
\* A key without expiry (Redis TTL -1).
NoExpiry == -1

MaxCalls == 2
\* Redis commands that raise in one behaviour.
MaxStoreErrors == 1
\* Sandbox ids are handed out in sequence by the sandbox service.
Sandboxes == 1..(MAX_SANDBOX_IDS + MaxCalls)

\* The capability flags create_session forces into every configuration.
DefaultFlags ==
    [k \in {"enable_github", "enable_google_email", "enable_google_drive",
            "enable_browser", "enable_vercel", "enable_supabase"} |-> TRUE]

EmptyConfig == [k \in {} |-> TRUE]

\* Configurations a client sends (data.get("config", {})): none, or one that
\* switches a capability off and sets an unrelated key.
ClientConfigs ==
    { EmptyConfig,
      [k \in {"enable_browser", "coding_assistant"} |-> (k = "coding_assistant")] }

\* dict.update: the keys of `other` overwrite those of `d`.
DictUpdate(d, other) ==
    [k \in DOMAIN d \cup DOMAIN other |-> IF k \in DOMAIN other THEN other[k] ELSE d[k]]

\* The settings of each user's client: user-a's sends no config, user-b's
\* the other one.
ClientConfig(u) ==
    IF u = "user-a" THEN EmptyConfig ELSE CHOOSE cfg \in ClientConfigs : cfg # EmptyConfig

\* create_session with the merge turned round: the caller's values win.
MergeDefaultsCallerWins(agent_config) == DictUpdate(DefaultFlags, agent_config)

\* agent_config.update({...six flags: True...}) of create_session.
MergeDefaults(agent_config) == DictUpdate(agent_config, DefaultFlags)

\* json.dumps / json.loads of session_data: booleans become the JSON
\* literals true / false, strings and the id list are kept.  `created_with`
\* is history, not part of the stored JSON: the agent_config argument of the
\* create_session call that built the record.
JsonDumps(data) ==
    [user_id |-> data.user_id,
     config |-> [k \in DOMAIN data.config |-> IF data.config[k] THEN "true" ELSE "false"],
     sandbox_ids |-> data.sandbox_ids,
     created_with |-> data.created_with]

JsonLoads(json) ==
    [user_id |-> json.user_id,
     config |-> [k \in DOMAIN json.config |-> json.config[k] = "true"],
     sandbox_ids |-> json.sandbox_ids,
     created_with |-> json.created_with]

NoData == [user_id |-> "", config |-> EmptyConfig, sandbox_ids |-> <<>>,
           created_with |-> EmptyConfig]

\* A key that does not exist.  `deleted` is history, not part of the store:
\* the key was removed by terminate_session's DEL (not by expiry) and has not
\* been written since.
NoKey == [exists |-> FALSE, val |-> JsonDumps(NoData), ttl |-> 0, deleted |-> FALSE]
\* redis DEL key.
Deleted == [NoKey EXCEPT !.deleted = TRUE]
NoIndex == [members |-> {}, ttl |-> 0]

\* session_data of create_session (timestamps and memory_usage_mb, which no
\* operation reads, are left out).
NewSessionData(user_id, agent_config) ==
    [user_id |-> user_id, config |-> MergeDefaults(agent_config),
     sandbox_ids |-> <<>>, created_with |-> agent_config]

\* redis SET key value ex=SESSION_TTL.
SetEx(json) == [exists |-> TRUE, val |-> json, ttl |-> SESSION_TTL, deleted |-> FALSE]

\* get_session writing the record back without ex=: the old TTL stays.
RefreshWriteKeepsTtl(key, data) == [SetEx(JsonDumps(data)) EXCEPT !.ttl = key.ttl]

\* The write of get_session: the record back with a refreshed TTL.
RefreshWrite(key, data) == SetEx(JsonDumps(data))

\* The limit test written with > instead of >=.
EnforceLimitOffByOne(sandbox_ids) ==
    IF Len(sandbox_ids) > MAX_SANDBOX_IDS THEN Tail(sandbox_ids) ELSE sandbox_ids

\* sandbox_ids after add_sandbox_to_session's limit enforcement and append.
EnforceLimit(sandbox_ids) ==
    IF Len(sandbox_ids) >= MAX_SANDBOX_IDS THEN Tail(sandbox_ids) ELSE sandbox_ids

\* pop() instead of pop(0): the newest id is the one torn down.
EvictedIdNewest(sandbox_ids) ==
    IF Len(sandbox_ids) >= MAX_SANDBOX_IDS THEN sandbox_ids[Len(sandbox_ids)] ELSE 0

\* The id add_sandbox_to_session tears down (0: none).
EvictedId(sandbox_ids) ==
    IF Len(sandbox_ids) >= MAX_SANDBOX_IDS THEN Head(sandbox_ids) ELSE 0

\* requests.delete(f"{SANDBOX_API_URL}/sessions/{id}") for each id of `ids`;
\* nothing is sent when SANDBOX_API_URL is not set.
IssueTeardowns(td, ids, url) ==
    IF url THEN [s \in Sandboxes |-> IF s \in ids THEN td[s] + 1 ELSE td[s]] ELSE td

\* SADD / SREM / EXPIRE on a set key; Redis removes a set that becomes empty.
SAdd(idx, c) ==
    IF idx.members = {} THEN [members |-> {c}, ttl |-> NoExpiry]
    ELSE [idx EXCEPT !.members = @ \cup {c}]
SRem(idx, c) ==
    IF idx.members \ {c} = {} THEN NoIndex ELSE [idx EXCEPT !.members = @ \ {c}]
ExpireOmitted(idx, ex) == idx
Expire(idx, ex) ==
    IF idx.members = {} THEN idx ELSE [idx EXCEPT !.ttl = ex]

Range(seq) == {seq[i] : i \in 1..Len(seq)}

\* A Python value that names a key or a set member: the bytes object the
\* client returns (RedisClient.from_url without decode_responses), or a str.
Bytes(s) == <<"bytes", s>>
Str(s) == <<"str", s>>

\* The text an f-string renders a value as, piece by piece: a str as it is,
\* a bytes object as its repr b'...'.
FString(value) ==
    IF value[1] = "bytes" THEN <<"b'", value[2], "'">> ELSE <<value[2]>>

\* f"session:{session_id}"
SessionKey(session_id) == <<"session:">> \o FString(session_id)

\* EXISTS key: the records are stored under session:<conversation id>.
Exists(store, key) ==
    \E c \in Convs : key = SessionKey(Str(c)) /\ store[c].exists

\* The test of the sweeps for one member of SMEMBERS: the member comes back as
\* bytes and goes into the f-string as it is.
SweepFindsRecord(store, member) == Exists(store, SessionKey(Bytes(member)))

\* No command has raised; get_active_session_count has answered nothing yet
\* (count -1).
NoFaults == [errors |-> 0, raised |-> 0, count |-> -1]

Idle == [op |-> "idle", pc |-> "idle", conv |-> "", user |-> "", config |-> EmptyConfig,
         sandbox |-> 0, data |-> NoData, todo |-> {}, target |-> "", failed |-> {},
         keys |-> {}]

\* A session of `user` that `n` add_sandbox_to_session calls, one after the
\* other, have attached the sandboxes 1..n to.
SeededKey(user, n) ==
    SetEx(JsonDumps([NewSessionData(user, EmptyConfig) EXCEPT !.sandbox_ids = [i \in 1..n |-> i]]))

\* The store holds one session of user-a, one attach short of its cap (the
\* state create_session and MAX_SANDBOX_IDS - 1 attaches leave); conv-b and
\* user-b have nothing stored yet.
SessionsInit ==
    /\ sandboxApiUrl \in BOOLEAN
    /\ redisSession = [c \in Convs |->
          IF c = "conv-a" THEN SeededKey("user-a", MAX_SANDBOX_IDS - 1) ELSE NoKey]
    /\ userIndex = [u \in Users |->
          IF u = "user-a" THEN [members |-> {"conv-a"}, ttl |-> SESSION_TTL] ELSE NoIndex]
    /\ nextSandbox = MAX_SANDBOX_IDS
    /\ teardowns = [s \in Sandboxes |-> 0]
    /\ opsBegun = 0
    /\ call = [w \in Workers |-> Idle]
    /\ storeFaults = NoFaults

\* The session store with nothing in it and no call made (other components).
SessionsQuiet ==
    /\ sandboxApiUrl = TRUE
    /\ redisSession = [c \in Convs |-> NoKey]
    /\ userIndex = [u \in Users |-> NoIndex]
    /\ nextSandbox = 1
    /\ teardowns = [s \in Sandboxes |-> 0]
    /\ opsBegun = 0
    /\ call = [w \in Workers |-> Idle]
    /\ storeFaults = NoFaults

\* A request is taken up by a free worker (the first one, the workers being
\* interchangeable) as long as the budget of calls lasts.
Begins(w) ==
    /\ call[w].op = "idle"
    /\ w = "w2" => call["w1"].op # "idle"
    /\ opsBegun < MaxCalls

\* One hour passes: every TTL counts down, keys at 0 are gone.
ExpireKey(key) ==
    IF key.exists /\ key.ttl = 1 THEN NoKey
    ELSE IF key.exists /\ key.ttl > 1 THEN [key EXCEPT !.ttl = @ - 1] ELSE key
ExpireIndex(idx) ==
    IF idx.members # {} /\ idx.ttl = 1 THEN NoIndex
    ELSE IF idx.members # {} /\ idx.ttl > 1 THEN [idx EXCEPT !.ttl = @ - 1] ELSE idx

Tick ==
    /\ redisSession' = [c \in Convs |-> ExpireKey(redisSession[c])]
    /\ userIndex' = [u \in Users |-> ExpireIndex(userIndex[u])]
    /\ redisSession' # redisSession \/ userIndex' # userIndex
    /\ UNCHANGED <<teardowns, sandboxApiUrl, nextSandbox, opsBegun, call>>
    /\ UNCHANGED storeFaults
    /\ UNCHANGED notSessionVars

\* ---- create_session -------------------------------------------------------
\* Call begins; _cleanup_expired_sessions reads the user's index (SMEMBERS).
create_session(w, c, u, cfg) ==
    /\ Begins(w)
    /\ opsBegun' = opsBegun + 1
    /\ call' = [call EXCEPT ![w] =
          [Idle EXCEPT !.op = "create", !.conv = c, !.user = u, !.config = cfg,
                       !.todo = userIndex[u].members,
                       !.pc = IF userIndex[u].members = {} THEN "set" ELSE "cleanup"]]
    /\ UNCHANGED <<redisSession, userIndex, teardowns, sandboxApiUrl, nextSandbox>>
    /\ UNCHANGED storeFaults
    /\ UNCHANGED notSessionVars

\* Where a call goes on when the sweep of one index set is through.
AfterSweep(op) == IF op = "create" THEN "set" ELSE "smembers"

\* The sweep loop of _cleanup_expired_sessions and of
\* cleanup_all_expired_sessions: EXISTS for the next member of the set.
CleanupCheck(w, id) ==
    /\ call[w].op \in {"create", "sweep"} /\ call[w].pc = "cleanup"
    /\ id \in call[w].todo
    /\ call' = [call EXCEPT ![w].todo = @ \ {id},
                            ![w].pc = IF SweepFindsRecord(redisSession, id)
                                      THEN (IF call[w].todo \ {id} = {}
                                            THEN AfterSweep(call[w].op) ELSE "cleanup")
                                      ELSE "srem",
                            ![w].target = IF SweepFindsRecord(redisSession, id) THEN "" ELSE id]
    /\ UNCHANGED <<redisSession, userIndex, teardowns, sandboxApiUrl, nextSandbox, opsBegun>>
    /\ UNCHANGED storeFaults
    /\ UNCHANGED notSessionVars

\* The sweep loop: SREM of the member for which EXISTS answered 0.
CleanupSrem(w) ==
    /\ call[w].op \in {"create", "sweep"} /\ call[w].pc = "srem"
    /\ userIndex' = [userIndex EXCEPT ![call[w].user] = SRem(@, call[w].target)]
    /\ call' = [call EXCEPT ![w].target = "",
                            ![w].pc = IF call[w].todo = {}
                                      THEN AfterSweep(call[w].op) ELSE "cleanup"]
    /\ UNCHANGED <<redisSession, teardowns, sandboxApiUrl, nextSandbox, opsBegun>>
    /\ UNCHANGED storeFaults
    /\ UNCHANGED notSessionVars

\* cleanup_all_expired_sessions: KEYS user_sessions:*, cut to the first
\* CLEANUP_BATCH_SIZE keys of the reply.
cleanup_all_expired_sessions(w) ==
    /\ Begins(w)
    /\ opsBegun' = opsBegun + 1
    /\ LET user_keys == {u \in Users : userIndex[u].members # {}}
       IN  \E batch \in SUBSET user_keys :
              /\ Cardinality(batch) = IF Cardinality(user_keys) < CLEANUP_BATCH_SIZE
                                      THEN Cardinality(user_keys) ELSE CLEANUP_BATCH_SIZE
              /\ call' = [call EXCEPT ![w] =
                    IF batch = {} THEN Idle
                    ELSE [Idle EXCEPT !.op = "sweep", !.pc = "smembers", !.keys = batch]]
    /\ UNCHANGED <<redisSession, userIndex, teardowns, sandboxApiUrl, nextSandbox>>
    /\ UNCHANGED storeFaults
    /\ UNCHANGED notSessionVars

\* cleanup_all_expired_sessions: SMEMBERS of the next key of the batch.
SweepMembers(w, u) ==
    /\ call[w].op = "sweep" /\ call[w].pc = "smembers"
    /\ u \in call[w].keys
    /\ call' = [call EXCEPT ![w].keys = @ \ {u},
                            ![w].user = u,
                            ![w].todo = userIndex[u].members,
                            ![w].pc = IF userIndex[u].members = {} THEN "smembers"
                                      ELSE "cleanup"]
    /\ UNCHANGED <<redisSession, userIndex, teardowns, sandboxApiUrl, nextSandbox, opsBegun>>
    /\ UNCHANGED storeFaults
    /\ UNCHANGED notSessionVars

\* cleanup_all_expired_sessions: the batch is through.
SweepReturn(w) ==
    /\ call[w].op = "sweep" /\ call[w].pc = "smembers"
    /\ call[w].keys = {}
    /\ call' = [call EXCEPT ![w] = Idle]
    /\ UNCHANGED <<redisSession, userIndex, teardowns, sandboxApiUrl, nextSandbox, opsBegun>>
    /\ UNCHANGED storeFaults
    /\ UNCHANGED notSessionVars

\* SET session:<id> with ex=SESSION_TTL.
CreateSet(w) ==
    /\ call[w].op = "create" /\ call[w].pc = "set"
    /\ redisSession' = [redisSession EXCEPT ![call[w].conv] =
          SetEx(JsonDumps(NewSessionData(call[w].user, call[w].config)))]
    /\ call' = [call EXCEPT ![w].pc = "sadd",
                            ![w].data = NewSessionData(call[w].user, call[w].config)]
    /\ UNCHANGED <<userIndex, teardowns, sandboxApiUrl, nextSandbox, opsBegun>>
    /\ UNCHANGED storeFaults
    /\ UNCHANGED notSessionVars

\* SADD user_sessions:<user> <id>.
CreateSadd(w) ==
    /\ call[w].op = "create" /\ call[w].pc = "sadd"
    /\ userIndex' = [userIndex EXCEPT ![call[w].user] = SAdd(@, call[w].conv)]
    /\ call' = [call EXCEPT ![w].pc = "expire"]
    /\ UNCHANGED <<redisSession, teardowns, sandboxApiUrl, nextSandbox, opsBegun>>
    /\ UNCHANGED storeFaults
    /\ UNCHANGED notSessionVars

\* EXPIRE user_sessions:<user> SESSION_TTL; the call returns session_data.
CreateExpire(w) ==
    /\ call[w].op = "create" /\ call[w].pc = "expire"
    /\ userIndex' = [userIndex EXCEPT ![call[w].user] = Expire(@, SESSION_TTL)]
    /\ call' = [call EXCEPT ![w] = Idle]
    /\ UNCHANGED <<redisSession, teardowns, sandboxApiUrl, nextSandbox, opsBegun>>
    /\ UNCHANGED storeFaults
    /\ UNCHANGED notSessionVars

\* ---- get_session ----------------------------------------------------------
\* GET session:<id>: a miss returns None, a hit goes on to the refresh.
get_session(w, c) ==
    /\ Begins(w)
    /\ opsBegun' = opsBegun + 1
    /\ call' = [call EXCEPT ![w] =
          IF redisSession[c].exists
          THEN [Idle EXCEPT !.op = "get", !.pc = "set", !.conv = c,
                            !.data = JsonLoads(redisSession[c].val)]
          ELSE Idle]
    /\ UNCHANGED <<redisSession, userIndex, teardowns, sandboxApiUrl, nextSandbox>>
    /\ UNCHANGED storeFaults
    /\ UNCHANGED notSessionVars

\* SET with ex=SESSION_TTL of what was read; session_data is returned.
GetRefresh(w) ==
    /\ call[w].op = "get" /\ call[w].pc = "set"
    /\ redisSession' = [redisSession EXCEPT ![call[w].conv] = RefreshWrite(@, call[w].data)]
    /\ call' = [call EXCEPT ![w] = Idle]
    /\ UNCHANGED <<userIndex, teardowns, sandboxApiUrl, nextSandbox, opsBegun>>
    /\ UNCHANGED storeFaults
    /\ UNCHANGED notSessionVars

\* ---- terminate_session ----------------------------------------------------
\* The call begins.
terminate_session(w, c) ==
    /\ Begins(w)
    /\ opsBegun' = opsBegun + 1
    /\ call' = [call EXCEPT ![w] =
          [Idle EXCEPT !.op = "terminate", !.pc = "get", !.conv = c]]
    /\ UNCHANGED <<redisSession, userIndex, teardowns, sandboxApiUrl, nextSandbox>>
    /\ UNCHANGED storeFaults
    /\ UNCHANGED notSessionVars

\* GET session:<id> finds the record: json.loads.
TerminateGet(w) ==
    /\ call[w].op = "terminate" /\ call[w].pc = "get"
    /\ redisSession[call[w].conv].exists
    /\ call' = [call EXCEPT ![w].pc = "teardown",
                            ![w].data = JsonLoads(redisSession[call[w].conv].val)]
    /\ UNCHANGED <<redisSession, userIndex, teardowns, sandboxApiUrl, nextSandbox, opsBegun>>
    /\ UNCHANGED storeFaults
    /\ UNCHANGED notSessionVars

\* The miss branch without its early return: the id is taken out of every
\* user's index all the same.
TerminateMissCleans(w) ==
    /\ call[w].op = "terminate" /\ call[w].pc = "get"
    /\ ~redisSession[call[w].conv].exists
    /\ userIndex' = [u \in Users |-> SRem(userIndex[u], call[w].conv)]
    /\ call' = [call EXCEPT ![w] = Idle]
    /\ UNCHANGED <<redisSession, teardowns, sandboxApiUrl, nextSandbox, opsBegun>>
    /\ UNCHANGED storeFaults
    /\ UNCHANGED notSessionVars

\* GET session:<id> finds nothing: `if not session_json: return`.
TerminateMiss(w) ==
    /\ call[w].op = "terminate" /\ call[w].pc = "get"
    /\ ~redisSession[call[w].conv].exists
    /\ call' = [call EXCEPT ![w] = Idle]
    /\ UNCHANGED <<redisSession, userIndex, teardowns, sandboxApiUrl, nextSandbox, opsBegun>>
    /\ UNCHANGED storeFaults
    /\ UNCHANGED notSessionVars

\* A request that raised requests.RequestException was sent all the same and
\* the next id is sent too: the ids stopping at the first failure.
RequestedUntilFailure(sandbox_ids, failed) ==
    {sandbox_ids[i] : i \in {k \in 1..Len(sandbox_ids) :
                                \A j \in 1..(k - 1) : sandbox_ids[j] \notin failed}}

\* The ids a DELETE request is sent for by the loop over sandbox_ids, the
\* requests of `failed` raising requests.RequestException (caught per id).
Requested(sandbox_ids, failed) == Range(sandbox_ids)

\* The loop of DELETE requests, one per attached sandbox id; the requests of
\* `failed` raise and are logged only.
TerminateTeardown(w) ==
    /\ call[w].op = "terminate" /\ call[w].pc = "teardown"
    /\ \E failed \in SUBSET Range(call[w].data.sandbox_ids) :
          /\ sandboxApiUrl \/ failed = {}
          /\ teardowns' = IssueTeardowns(teardowns,
                                         Requested(call[w].data.sandbox_ids, failed),
                                         sandboxApiUrl)
          /\ call' = [call EXCEPT ![w].pc = "srem", ![w].failed = failed]
    /\ UNCHANGED <<redisSession, userIndex, sandboxApiUrl, nextSandbox, opsBegun>>
    /\ UNCHANGED storeFaults
    /\ UNCHANGED notSessionVars

\* SREM user_sessions:<user> <id>.
TerminateSrem(w) ==
    /\ call[w].op = "terminate" /\ call[w].pc = "srem"
    /\ userIndex' = [userIndex EXCEPT ![call[w].data.user_id] = SRem(@, call[w].conv)]
    /\ call' = [call EXCEPT ![w].pc = "delete"]
    /\ UNCHANGED <<redisSession, teardowns, sandboxApiUrl, nextSandbox, opsBegun>>
    /\ UNCHANGED storeFaults
    /\ UNCHANGED notSessionVars

\* DEL session:<id>; the call returns.
TerminateDelete(w) ==
    /\ call[w].op = "terminate" /\ call[w].pc = "delete"
    /\ redisSession' = [redisSession EXCEPT ![call[w].conv] = Deleted]
    /\ call' = [call EXCEPT ![w] = Idle]
    /\ UNCHANGED <<userIndex, teardowns, sandboxApiUrl, nextSandbox, opsBegun>>
    /\ UNCHANGED storeFaults
    /\ UNCHANGED notSessionVars

\* ---- add_sandbox_to_session -----------------------------------------------
\* get_session's GET; a miss returns False.
add_sandbox_to_session(w, c) ==
    /\ Begins(w)
    /\ opsBegun' = opsBegun + 1
    /\ nextSandbox' = IF redisSession[c].exists THEN nextSandbox + 1 ELSE nextSandbox
    /\ call' = [call EXCEPT ![w] =
          IF redisSession[c].exists
          THEN [Idle EXCEPT !.op = "add", !.pc = "refresh", !.conv = c,
                            !.sandbox = nextSandbox,
                            !.data = JsonLoads(redisSession[c].val)]
          ELSE Idle]
    /\ UNCHANGED <<redisSession, userIndex, teardowns, sandboxApiUrl>>
    /\ UNCHANGED storeFaults
    /\ UNCHANGED notSessionVars

\* get_session's SET.
AddRefresh(w) ==
    /\ call[w].op = "add" /\ call[w].pc = "refresh"
    /\ redisSession' = [redisSession EXCEPT ![call[w].conv] = RefreshWrite(@, call[w].data)]
    /\ call' = [call EXCEPT ![w].pc =
          IF EvictedId(call[w].data.sandbox_ids) # 0 THEN "evict" ELSE "set"]
    /\ UNCHANGED <<userIndex, teardowns, sandboxApiUrl, nextSandbox, opsBegun>>
    /\ UNCHANGED storeFaults
    /\ UNCHANGED notSessionVars

\* The list is at its cap: _cleanup_sandbox(oldest).
AddEvict(w) ==
    /\ call[w].op = "add" /\ call[w].pc = "evict"
    /\ teardowns' = IssueTeardowns(teardowns, {EvictedId(call[w].data.sandbox_ids)},
                                   sandboxApiUrl)
    /\ call' = [call EXCEPT ![w].pc = "set"]
    /\ UNCHANGED <<redisSession, userIndex, sandboxApiUrl, nextSandbox, opsBegun>>
    /\ UNCHANGED storeFaults
    /\ UNCHANGED notSessionVars

\* add_sandbox_to_session saving a list that is at its cap as it is, without
\* the new id.
AddSetRejectsAtCap(w) ==
    /\ call[w].op = "add" /\ call[w].pc = "set"
    /\ redisSession' = [redisSession EXCEPT ![call[w].conv] =
          SetEx(JsonDumps([call[w].data EXCEPT !.sandbox_ids =
                              IF Len(@) >= MAX_SANDBOX_IDS THEN @
                              ELSE Append(@, call[w].sandbox)]))]
    /\ call' = [call EXCEPT ![w] = Idle]
    /\ UNCHANGED <<userIndex, teardowns, sandboxApiUrl, nextSandbox, opsBegun>>
    /\ UNCHANGED storeFaults
    /\ UNCHANGED notSessionVars

\* The new id is appended and the record saved; True is returned.
AddSet(w) ==
    /\ call[w].op = "add" /\ call[w].pc = "set"
    /\ redisSession' = [redisSession EXCEPT ![call[w].conv] =
          SetEx(JsonDumps([call[w].data EXCEPT !.sandbox_ids =
                              Append(EnforceLimit(@), call[w].sandbox)]))]
    /\ call' = [call EXCEPT ![w] = Idle]
    /\ UNCHANGED <<userIndex, teardowns, sandboxApiUrl, nextSandbox, opsBegun>>
    /\ UNCHANGED storeFaults
    /\ UNCHANGED notSessionVars

\* ---- get_active_session_count ----------------------------------------------
\* SMEMBERS and one EXISTS for each member; the number of members found.
get_active_session_count(u) ==
    /\ storeFaults' = [storeFaults EXCEPT !.count =
          Cardinality({sid \in userIndex[u].members : SweepFindsRecord(redisSession, sid)})]
    /\ UNCHANGED <<redisSession, userIndex, teardowns, sandboxApiUrl, nextSandbox, opsBegun,
                   call>>
    /\ UNCHANGED notSessionVars

\* ---- the store is unreachable ---------------------------------------------
\* A command of get_active_session_count raises: the handler logs and
\* returns 0.
CountRaises(u) ==
    /\ storeFaults.errors < MaxStoreErrors
    /\ storeFaults' = [storeFaults EXCEPT !.errors = @ + 1, !.count = 0]
    /\ UNCHANGED <<redisSession, userIndex, teardowns, sandboxApiUrl, nextSandbox, opsBegun,
                   call>>
    /\ UNCHANGED notSessionVars

\* The GET that get_session begins with raises, in a get_session or an
\* add_sandbox_to_session call: the exception goes to the caller.
GetRaises(w) ==
    /\ Begins(w)
    /\ storeFaults.errors < MaxStoreErrors
    /\ opsBegun' = opsBegun + 1
    /\ storeFaults' = [storeFaults EXCEPT !.errors = @ + 1, !.raised = @ + 1]
    /\ UNCHANGED <<redisSession, userIndex, teardowns, sandboxApiUrl, nextSandbox, call>>
    /\ UNCHANGED notSessionVars

\* The next command of a call raises outside a sweep (SET, SADD, EXPIRE of
\* create_session; the SET of get_session; GET, SREM, DELETE of
\* terminate_session; the SETs of add_sandbox_to_session): no handler, the
\* call ends and the exception goes to the caller.
StoreRaises(w) ==
    /\ storeFaults.errors < MaxStoreErrors
    /\ \/ call[w].op = "create" /\ call[w].pc \in {"set", "sadd", "expire"}
       \/ call[w].op = "get"
       \/ call[w].op = "terminate" /\ call[w].pc \in {"get", "srem", "delete"}
       \/ call[w].op = "add" /\ call[w].pc \in {"refresh", "set"}
    /\ call' = [call EXCEPT ![w] = Idle]
    /\ storeFaults' = [storeFaults EXCEPT !.errors = @ + 1, !.raised = @ + 1]
    /\ UNCHANGED <<redisSession, userIndex, teardowns, sandboxApiUrl, nextSandbox, opsBegun>>
    /\ UNCHANGED notSessionVars

\* The next command of a sweep raises: the except Exception of the sweep logs
\* it; create_session goes on with its SET, the global sweep returns.
CleanupRaises(w) ==
    /\ storeFaults.errors < MaxStoreErrors
    /\ call[w].op \in {"create", "sweep"}
    /\ call[w].pc \in {"cleanup", "srem", "smembers"}
    /\ call' = [call EXCEPT ![w] =
          IF call[w].op = "create"
          THEN [@ EXCEPT !.pc = "set", !.todo = {}, !.target = ""]
          ELSE Idle]
    /\ storeFaults' = [storeFaults EXCEPT !.errors = @ + 1]
    /\ UNCHANGED <<redisSession, userIndex, teardowns, sandboxApiUrl, nextSandbox, opsBegun>>
    /\ UNCHANGED notSessionVars

NextStoreFaults ==
    \/ \E u \in Users : CountRaises(u)
    \/ \E w \in Workers : GetRaises(w)
    \/ \E w \in Workers : StoreRaises(w)
    \/ \E w \in Workers : CleanupRaises(w)

NextSessions ==
    \/ Tick
    \/ \E w \in Workers, c \in Convs, u \in Users :
          create_session(w, c, u, ClientConfig(u))
    \/ \E w \in Workers, id \in Convs : CleanupCheck(w, id)
    \/ \E w \in Workers : CleanupSrem(w)
    \/ \E w \in Workers : cleanup_all_expired_sessions(w)
    \/ \E w \in Workers, u \in Users : SweepMembers(w, u)
    \/ \E w \in Workers : SweepReturn(w)
    \/ \E w \in Workers : CreateSet(w)
    \/ \E w \in Workers : CreateSadd(w)
    \/ \E w \in Workers : CreateExpire(w)
    \/ \E w \in Workers, c \in Convs : get_session(w, c)
    \/ \E w \in Workers : GetRefresh(w)
    \/ \E w \in Workers, c \in Convs : terminate_session(w, c)
    \/ \E w \in Workers : TerminateGet(w)
    \/ \E w \in Workers : TerminateMiss(w)
    \/ \E w \in Workers : TerminateTeardown(w)
    \/ \E w \in Workers : TerminateSrem(w)
    \/ \E w \in Workers : TerminateDelete(w)
    \/ \E w \in Workers, c \in Convs : add_sandbox_to_session(w, c)
    \/ \E w \in Workers : AddRefresh(w)
    \/ \E w \in Workers : AddEvict(w)
    \/ \E w \in Workers : AddSet(w)
    \/ \E u \in Users : get_active_session_count(u)

(***************************************************************************)
(* Remote-command bridge                                                   *)
(*   handle_browser_command_result (sockets.py) publishes the client's     *)
(*   result; the tool call that issued the command waits for it on the     *)
(*   response channel of its request id.                                   *)
(***************************************************************************)
\* Request ids are UUIDs, one per command issued.
Requests == {"req-x", "req-y", "req-z"}
MaxReplies == 2

\* data.get('request_id') / data.get('result', {}) of an event without the key.
NoRequest == "None"
NoResult == "missing"
\* Result payloads a client sends (JSON objects, here by their status).
Payloads == {"success", "denied"}

\* The browser-command-result events a client can send: it knows the request
\* ids of the commands pushed to it.
ClientData(known) ==
    [request_id : known \cup {NoRequest}, result : Payloads \cup {NoResult}]

\* The channel name built without the request id.
response_channel_shared(request_id) == <<"browser-response", "">>

\* f"browser-response:{request_id}"
response_channel(request_id) == <<"browser-response", request_id>>

\* (A handler that does not look at the event's result.)
ResultPayloadDropped(data) == "{}"

\* data.get('result', {})
ResultPayload(data) == IF data.result = NoResult THEN "{}" ELSE data.result

\* json.dumps(result_payload) and the waiting side's json.loads.
JsonDumpsResult(payload) == <<"json", payload>>
JsonLoadsResult(message) == message[2]

\* The channel the waiting call subscribes to for request r.
SubscriptionChannel(r) == <<"browser-response", r>>

\* redis PUBLISH: the message reaches the subscriptions of that channel that
\* exist now, and nobody else, now or later.
Publish(inb, subs, channel, message) ==
    [r \in Requests |->
        IF channel \in subs /\ channel = SubscriptionChannel(r)
        THEN Append(inb[r], message) ELSE inb[r]]

NoHeld == [kind |-> "none", payload |-> ""]
ReplyResult(message) == [kind |-> "reply", payload |-> JsonLoadsResult(message)]
TimeoutResult == [kind |-> "timeout", payload |-> ""]
ErrorResult == [kind |-> "error", payload |-> ""]

\* Unsubscribing only after a reply: the timeout and error paths leak.
ReleaseOnReplyOnly(subs, r, result) ==
    IF result.kind = "reply" THEN subs \ {SubscriptionChannel(r)} ELSE subs

\* The subscriptions after the call for r has unsubscribed, whatever the
\* result it is about to return.
Release(subs, r, result) == subs \ {SubscriptionChannel(r)}

BridgeInit ==
    /\ redisClient \in BOOLEAN
    /\ bridgePc = [r \in Requests |-> "new"]
    /\ subscriptions = {}
    /\ inbox = [r \in Requests |-> <<>>]
    /\ pushed = {}
    /\ held = [r \in Requests |-> NoHeld]
    /\ returned = [r \in Requests |-> <<>>]
    /\ published = [r \in Requests |-> <<>>]
    /\ dropped = {}
    /\ replies = 0

\* The bridge with no command issued (other components).
BridgeQuiet ==
    /\ redisClient = TRUE
    /\ bridgePc = [r \in Requests |-> "new"]
    /\ subscriptions = {}
    /\ inbox = [r \in Requests |-> <<>>]
    /\ pushed = {}
    /\ held = [r \in Requests |-> NoHeld]
    /\ returned = [r \in Requests |-> <<>>]
    /\ published = [r \in Requests |-> <<>>]
    /\ dropped = {}
    /\ replies = 0

\* ---- the waiting side -----------------------------------------------------
\* Step 2: subscribe to the response channel of the request id.
BridgeSubscribe(r) ==
    /\ bridgePc[r] = "new"
    /\ redisClient
    /\ subscriptions' = subscriptions \cup {SubscriptionChannel(r)}
    /\ bridgePc' = [bridgePc EXCEPT ![r] = "subscribed"]
    /\ UNCHANGED <<redisClient, inbox, pushed, held, returned, published, dropped, replies>>
    /\ UNCHANGED notBridgeVars

\* The pub/sub layer cannot be reached: the call fails with nothing subscribed.
BridgeSubscribeFails(r) ==
    /\ bridgePc[r] = "new"
    /\ bridgePc' = [bridgePc EXCEPT ![r] = "done"]
    /\ returned' = [returned EXCEPT ![r] = Append(@, ErrorResult)]
    /\ UNCHANGED <<redisClient, subscriptions, inbox, pushed, held, published, dropped, replies>>
    /\ UNCHANGED notBridgeVars

\* Step 3: push {action, parameters, requestId} to the client.
BridgePush(r) ==
    /\ bridgePc[r] = "subscribed"
    /\ pushed' = pushed \cup {r}
    /\ bridgePc' = [bridgePc EXCEPT ![r] = "waiting"]
    /\ UNCHANGED <<redisClient, subscriptions, inbox, held, returned, published, dropped, replies>>
    /\ UNCHANGED notBridgeVars

\* The push raises (the client's connection is gone).
BridgePushFails(r) ==
    /\ bridgePc[r] = "subscribed"
    /\ held' = [held EXCEPT ![r] = ErrorResult]
    /\ bridgePc' = [bridgePc EXCEPT ![r] = "closing"]
    /\ UNCHANGED <<redisClient, subscriptions, inbox, pushed, returned, published, dropped, replies>>
    /\ UNCHANGED notBridgeVars

\* Step 4: one message arrives on the subscription.
BridgeReceive(r) ==
    /\ bridgePc[r] = "waiting"
    /\ inbox[r] # <<>>
    /\ held' = [held EXCEPT ![r] = ReplyResult(Head(inbox[r]))]
    /\ bridgePc' = [bridgePc EXCEPT ![r] = "closing"]
    /\ UNCHANGED <<redisClient, subscriptions, inbox, pushed, returned, published, dropped, replies>>
    /\ UNCHANGED notBridgeVars

\* Step 4: the bounded timeout elapses with no message on the subscription.
BridgeTimeout(r) ==
    /\ bridgePc[r] = "waiting"
    /\ inbox[r] = <<>>
    /\ held' = [held EXCEPT ![r] = TimeoutResult]
    /\ bridgePc' = [bridgePc EXCEPT ![r] = "closing"]
    /\ UNCHANGED <<redisClient, subscriptions, inbox, pushed, returned, published, dropped, replies>>
    /\ UNCHANGED notBridgeVars

\* Step 4: the wait raises.
BridgeWaitFails(r) ==
    /\ bridgePc[r] = "waiting"
    /\ held' = [held EXCEPT ![r] = ErrorResult]
    /\ bridgePc' = [bridgePc EXCEPT ![r] = "closing"]
    /\ UNCHANGED <<redisClient, subscriptions, inbox, pushed, returned, published, dropped, replies>>
    /\ UNCHANGED notBridgeVars

\* Step 5: unsubscribe, release the handle, return the result.
BridgeRelease(r) ==
    /\ bridgePc[r] = "closing"
    /\ subscriptions' = Release(subscriptions, r, held[r])
    /\ inbox' = [inbox EXCEPT ![r] = <<>>]
    /\ returned' = [returned EXCEPT ![r] = Append(@, held[r])]
    /\ held' = [held EXCEPT ![r] = NoHeld]
    /\ bridgePc' = [bridgePc EXCEPT ![r] = "done"]
    /\ UNCHANGED <<redisClient, pushed, published, dropped, replies>>
    /\ UNCHANGED notBridgeVars

\* ---- handle_browser_command_result ----------------------------------------
\* (A handler that publishes the result on every response channel.)
HandleResultToAll(data) ==
    /\ replies < MaxReplies
    /\ redisClient
    /\ data.request_id # NoRequest
    /\ inbox' = [r \in Requests |->
          IF SubscriptionChannel(r) \in subscriptions
          THEN Append(inbox[r], JsonDumpsResult(ResultPayload(data))) ELSE inbox[r]]
    /\ published' = [published EXCEPT ![data.request_id] = Append(@, data.result)]
    /\ replies' = replies + 1
    /\ UNCHANGED <<redisClient, bridgePc, subscriptions, pushed, held, returned, dropped>>
    /\ UNCHANGED notBridgeVars

\* The result is published to the response channel of its request id.
handle_browser_command_result(data) ==
    /\ replies < MaxReplies
    /\ redisClient
    /\ data.request_id # NoRequest
    /\ inbox' = Publish(inbox, subscriptions, response_channel(data.request_id),
                        JsonDumpsResult(ResultPayload(data)))
    /\ published' = [published EXCEPT ![data.request_id] = Append(@, data.result)]
    /\ replies' = replies + 1
    /\ UNCHANGED <<redisClient, bridgePc, subscriptions, pushed, held, returned, dropped>>
    /\ UNCHANGED notBridgeVars

\* publish raises: the failure is logged and the result dropped.
HandleResultPublishFails(data) ==
    /\ replies < MaxReplies
    /\ redisClient
    /\ data.request_id # NoRequest
    /\ replies' = replies + 1
    /\ dropped' = dropped \cup {data.request_id}
    /\ UNCHANGED <<redisClient, bridgePc, subscriptions, inbox, pushed, held, returned,
                   published>>
    /\ UNCHANGED notBridgeVars

\* No request_id in the event: a warning is logged.
HandleResultNoRequestId(data) ==
    /\ replies < MaxReplies
    /\ redisClient
    /\ data.request_id = NoRequest
    /\ replies' = replies + 1
    /\ UNCHANGED <<redisClient, bridgePc, subscriptions, inbox, pushed, held, returned,
                   published, dropped>>
    /\ UNCHANGED notBridgeVars

\* redis_client_instance is not set: an error is logged.
HandleResultNoRedis(data) ==
    /\ replies < MaxReplies
    /\ ~redisClient
    /\ replies' = replies + 1
    /\ dropped' = dropped \cup ({data.request_id} \ {NoRequest})
    /\ UNCHANGED <<redisClient, bridgePc, subscriptions, inbox, pushed, held, returned,
                   published>>
    /\ UNCHANGED notBridgeVars

NextBridge ==
    \/ \E r \in Requests : BridgeSubscribe(r)
    \/ \E r \in Requests : BridgeSubscribeFails(r)
    \/ \E r \in Requests : BridgePush(r)
    \/ \E r \in Requests : BridgePushFails(r)
    \/ \E r \in Requests : BridgeReceive(r)
    \/ \E r \in Requests : BridgeTimeout(r)
    \/ \E r \in Requests : BridgeWaitFails(r)
    \/ \E r \in Requests : BridgeRelease(r)
    \/ \E data \in ClientData(pushed) : handle_browser_command_result(data)
    \/ \E data \in ClientData(pushed) : HandleResultPublishFails(data)
    \/ \E data \in ClientData(pushed) : HandleResultNoRequestId(data)
    \/ \E data \in ClientData(pushed) : HandleResultNoRedis(data)

(***************************************************************************)
(* run_agent_and_stream (agent_runner.py): one turn                        *)
(***************************************************************************)
MaxChunks == 5

\* The id of the message the turn answers.
MessageId == "msg-1"

ContentEvents == {"RunContent", "TeamRunContent"}
ToolStartEvents == {"ToolCallStarted", "TeamToolCallStarted"}
ToolEndEvents == {"ToolCallCompleted", "TeamToolCallCompleted"}

Chunk(has_event, event, owner, members, tool_name, is_output, tokens_in, tokens_out) ==
    [has_event |-> has_event, event |-> event, owner |-> owner,
     member_responses |-> members, tool_name |-> tool_name,
     team_run_output |-> is_output,
     input_tokens |-> tokens_in, output_tokens |-> tokens_out]

\* What agent.run(stream=True, stream_intermediate_steps=True) can yield:
\* content of a member agent, content of the team with member responses,
\* final content of the team, a tool call's start and end, an item without
\* an event, and the TeamRunOutput with and without token counts.
Chunks ==
    { Chunk(TRUE, "RunContent", "planner", FALSE, "", FALSE, 0, 0),
      Chunk(TRUE, "TeamRunContent", "Aetheria_AI", TRUE, "", FALSE, 0, 0),
      Chunk(TRUE, "TeamRunContent", "Aetheria_AI", FALSE, "", FALSE, 0, 0),
      Chunk(TRUE, "ToolCallStarted", "planner", FALSE, "web_search", FALSE, 0, 0),
      Chunk(TRUE, "ToolCallCompleted", "planner", FALSE, "web_search", FALSE, 0, 0),
      Chunk(FALSE, "", "", FALSE, "", FALSE, 0, 0),
      Chunk(TRUE, "TeamRunCompleted", "Aetheria_AI", FALSE, "", TRUE, 120, 45),
      Chunk(TRUE, "TeamRunCompleted", "Aetheria_AI", FALSE, "", TRUE, 0, 0) }

\* run_output before any TeamRunOutput was seen.
NoChunk == Chunk(FALSE, "None", "", FALSE, "", FALSE, 0, 0)

\* A "response" event with content: {content, streaming, id, agent_name, is_log}.
Event(name, type, agent_name, is_log) ==
    [name |-> name, type |-> type, id |-> MessageId, agent_name |-> agent_name,
     is_log |-> is_log]

\* An "agent_step" event: {type, name, agent_name, id}; it has no is_log key.
ToolEvent(type, tool_name, agent_name) ==
    [name |-> "agent_step", type |-> type, id |-> MessageId,
     agent_name |-> agent_name, tool_name |-> tool_name]

\* {"done": True, "id": message_id}
DoneEvent == [name |-> "response", type |-> "done", id |-> MessageId]
\* The error event carries a message only, no id.
ErrorEvent == [name |-> "error", type |-> "error"]

\* (A test that looks at the owner only.)
IsFinalByOwner(chunk) == chunk.owner = "Aetheria_AI"

\* is_final = owner_name == "Aetheria_AI" and not member_responses
IsFinal(chunk) == chunk.owner = "Aetheria_AI" /\ ~chunk.member_responses

\* The events the loop body emits for one chunk.
EventsFor(chunk) ==
    IF ~chunk.has_event THEN <<>>
    ELSE IF chunk.event \in ContentEvents
         THEN <<Event("response", "content", chunk.owner, ~IsFinal(chunk))>>
    ELSE IF chunk.event \in ToolStartEvents
         THEN <<ToolEvent("tool_start", chunk.tool_name, chunk.owner)>>
    ELSE IF chunk.event \in ToolEndEvents
         THEN <<ToolEvent("tool_end", chunk.tool_name, chunk.owner)>>
    ELSE <<>>

\* For each event the loop body emits for `chunk`: whether socketio.sleep(0)
\* is called right after the emit.
SleepsFor(chunk) ==
    IF ~chunk.has_event THEN <<>>
    ELSE IF chunk.event \in ContentEvents THEN <<TRUE>>
    ELSE IF chunk.event \in ToolStartEvents \cup ToolEndEvents THEN <<FALSE>>
    ELSE <<>>

\* Events held back and sent newest first.
EmitNewestFirst(sent, events) == events \o sent

\* socketio.emit(..., room=sid): the client's connection delivers in order.
Emit(sent, events) == sent \o events

\* run_output after the loop body saw `chunk`.
RunOutputAfter(current, chunk) ==
    IF chunk.has_event /\ chunk.team_run_output THEN chunk ELSE current

\* (A test that only asks whether the run reported an output.)
HasUsageAnyOutput(output) == output # NoChunk

\* run_output and run_output.metrics and (input_tokens > 0 or output_tokens > 0)
HasUsage(output) ==
    output # NoChunk /\ (output.input_tokens > 0 \/ output.output_tokens > 0)

StreamInit ==
    /\ streamPc = "setup"
    /\ consumed = <<>>
    /\ emitted = <<>>
    /\ slept = <<>>
    /\ run_output = NoChunk
    /\ request_logs = <<>>

\* Session lookup, agent construction and input processing succeed.
SetupOk ==
    /\ streamPc = "setup"
    /\ streamPc' = "context"
    /\ UNCHANGED <<consumed, emitted, slept, run_output, request_logs>>
    /\ UNCHANGED notStreamVars

\* The history of the context sessions is fetched (or there are none): the
\* message is built and agent.run(...) is called.
ContextFetched ==
    /\ streamPc = "context"
    /\ streamPc' = "drain"
    /\ UNCHANGED <<consumed, emitted, slept, run_output, request_logs>>
    /\ UNCHANGED notStreamVars

\* The fetch of a context session's runs raises, inside the loop's own try.
ContextFetchFails ==
    /\ streamPc = "context"
    /\ streamPc' = "context_failed"
    /\ UNCHANGED <<consumed, emitted, slept, run_output, request_logs>>
    /\ UNCHANGED notStreamVars

\* except Exception of the context loop: logged, the session is left out.
ContextFetchSkipped ==
    /\ streamPc = "context_failed"
    /\ streamPc' = "drain"
    /\ UNCHANGED <<consumed, emitted, slept, run_output, request_logs>>
    /\ UNCHANGED notStreamVars

\* The session is not found, or building the agent or the input raises.
SetupRaises ==
    /\ streamPc = "setup"
    /\ emitted' = Emit(emitted, <<ErrorEvent>>)
    /\ slept' = Append(slept, FALSE)
    /\ streamPc' = "finished"
    /\ UNCHANGED <<consumed, run_output, request_logs>>
    /\ UNCHANGED notStreamVars

\* One pass of the for loop over agent.run(...).
ConsumeChunk(chunk) ==
    /\ streamPc = "drain"
    /\ Len(consumed) < MaxChunks
    /\ consumed' = Append(consumed, chunk)
    /\ run_output' = RunOutputAfter(run_output, chunk)
    /\ emitted' = Emit(emitted, EventsFor(chunk))
    /\ slept' = slept \o SleepsFor(chunk)
    /\ UNCHANGED <<streamPc, request_logs>>
    /\ UNCHANGED notStreamVars

\* (Without the except handler the exception would leave the function.)
RunRaisesPropagates ==
    /\ streamPc = "drain"
    /\ streamPc' = "propagated"
    /\ UNCHANGED <<consumed, emitted, slept, run_output, request_logs>>
    /\ UNCHANGED notStreamVars

\* agent.run raises while being iterated (or an emit does).
RunRaises ==
    /\ streamPc = "drain"
    /\ emitted' = Emit(emitted, <<ErrorEvent>>)
    /\ slept' = Append(slept, FALSE)
    /\ streamPc' = "finished"
    /\ UNCHANGED <<consumed, run_output, request_logs>>
    /\ UNCHANGED notStreamVars

\* The generator is exhausted: the done event.
SourceExhausted ==
    /\ streamPc = "drain"
    /\ emitted' = Emit(emitted, <<DoneEvent>>)
    /\ slept' = Append(slept, FALSE)
    /\ streamPc' = "metrics"
    /\ UNCHANGED <<consumed, run_output, request_logs>>
    /\ UNCHANGED notStreamVars

\* The request_logs insert.
MetricsInsert ==
    /\ streamPc = "metrics"
    /\ HasUsage(run_output)
    /\ request_logs' = Append(request_logs,
          [input_tokens |-> run_output.input_tokens,
           output_tokens |-> run_output.output_tokens])
    /\ streamPc' = "finished"
    /\ UNCHANGED <<consumed, emitted, slept, run_output>>
    /\ UNCHANGED notStreamVars

\* The insert raises: the except handler emits the error event.
MetricsInsertRaises ==
    /\ streamPc = "metrics"
    /\ HasUsage(run_output)
    /\ emitted' = Emit(emitted, <<ErrorEvent>>)
    /\ slept' = Append(slept, FALSE)
    /\ streamPc' = "finished"
    /\ UNCHANGED <<consumed, run_output, request_logs>>
    /\ UNCHANGED notStreamVars

\* No usage reported: nothing is persisted.
MetricsSkipped ==
    /\ streamPc = "metrics"
    /\ ~HasUsage(run_output)
    /\ streamPc' = "finished"
    /\ UNCHANGED <<consumed, emitted, slept, run_output, request_logs>>
    /\ UNCHANGED notStreamVars

NextStream ==
    \/ SetupOk
    \/ SetupRaises
    \/ ContextFetched
    \/ ContextFetchFails
    \/ ContextFetchSkipped
    \/ \E chunk \in Chunks : ConsumeChunk(chunk)
    \/ RunRaises
    \/ SourceExhausted
    \/ MetricsInsert
    \/ MetricsInsertRaises
    \/ MetricsSkipped

(***************************************************************************)
(* on_send_message (sockets.py) and the start of the run it spawns         *)
(*   One handler runs at a time here; its ConnectionManager calls are      *)
(*   taken whole.                                                          *)
(***************************************************************************)
MaxMessages == 3

\* The access tokens a payload can carry: none, one that names no user, and
\* the tokens of the two users.
Tokens == {"", "stale", "token-a", "token-b"}
NoUser == "none"

\* supabase_client.auth.get_user(jwt=access_token).user
get_user(jwt) ==
    IF jwt = "token-a" THEN "user-a" ELSE IF jwt = "token-b" THEN "user-b" ELSE NoUser

\* The token a payload of `user` carries.
TokenOf(user) == IF user = "user-a" THEN "token-a" ELSE "token-b"

\* The send_message payloads: accessToken, conversationId ("": missing), type.
Messages == [accessToken : Tokens, conversationId : Convs \cup {""},
             type : {"", "terminate_session"}]
NoMessage == [accessToken |-> "", conversationId |-> "", type |-> ""]
MessageOf(user, conversationId, type) ==
    [accessToken |-> TokenOf(user), conversationId |-> conversationId, type |-> type]

\* socketio.emit(event, ..., room=sid) by the handler.
HandlerEmit(emits, event) == [emits EXCEPT ![event] = @ + 1]

SocketsInit ==
    /\ handled = 0
    /\ spawned = {}
    /\ agentRuns = {}
    /\ terminated = {}
    /\ received = NoMessage
    /\ handlerEmits = [event \in {"error", "status"} |-> 0]

\* _cleanup_expired_sessions run to its end: the ids without a record leave
\* the index.
CleanedIndex(idx, store) ==
    IF {c \in idx.members : SweepFindsRecord(store, c)} = {} THEN NoIndex
    ELSE [idx EXCEPT !.members = {c \in @ : SweepFindsRecord(store, c)}]

\* conversationId or accessToken missing, or the token names no user: an
\* error event, nothing else.
Rejects(data) ==
    \/ data.conversationId = ""
    \/ data.accessToken = ""
    \/ get_user(data.accessToken) = NoUser

\* (The handler looking at the token only after it served a
\* terminate_session message.)
SendMessageRejectedLate(data) ==
    /\ handled < MaxMessages
    /\ Rejects(data)
    /\ handled' = handled + 1
    /\ received' = data
    /\ handlerEmits' = HandlerEmit(handlerEmits, "error")
    /\ redisSession' = [c \in Convs |->
          IF c = data.conversationId /\ data.type = "terminate_session"
          THEN Deleted ELSE redisSession[c]]
    /\ UNCHANGED <<spawned, agentRuns, terminated, userIndex, teardowns, sandboxApiUrl,
                   nextSandbox, opsBegun, call>>
    /\ UNCHANGED storeFaults
    /\ UNCHANGED notSocketVars

SendMessageRejected(data) ==
    /\ handled < MaxMessages
    /\ Rejects(data)
    /\ handled' = handled + 1
    /\ received' = data
    /\ handlerEmits' = HandlerEmit(handlerEmits, "error")
    /\ UNCHANGED <<spawned, agentRuns, terminated, sessionVars>>
    /\ UNCHANGED notSocketVars

\* A message of type terminate_session whose token is user's:
\* terminate_session(conversationId) and a status event.
SendTerminate(user, conversationId) ==
    /\ handled < MaxMessages
    /\ handled' = handled + 1
    /\ IF redisSession[conversationId].exists
       THEN LET session_data == JsonLoads(redisSession[conversationId].val)
            IN  /\ teardowns' = IssueTeardowns(teardowns,
                                     Requested(session_data.sandbox_ids, {}), sandboxApiUrl)
                /\ userIndex' = [userIndex EXCEPT ![session_data.user_id] =
                                     SRem(@, conversationId)]
                /\ redisSession' = [redisSession EXCEPT ![conversationId] = Deleted]
                /\ terminated' = terminated \cup
                      {[auth |-> user, conv |-> conversationId,
                        owner |-> session_data.user_id]}
       ELSE UNCHANGED <<teardowns, userIndex, redisSession, terminated>>
    /\ received' = MessageOf(user, conversationId, "terminate_session")
    /\ handlerEmits' = HandlerEmit(handlerEmits, "status")
    /\ UNCHANGED <<spawned, agentRuns, sandboxApiUrl, nextSandbox, opsBegun, call>>
    /\ UNCHANGED storeFaults
    /\ UNCHANGED notSocketVars

\* (The handler without its create_session: a miss is not made good.)
on_send_message_no_create(user, conversationId) ==
    /\ handled < MaxMessages
    /\ handled' = handled + 1
    /\ redisSession' = [redisSession EXCEPT ![conversationId] =
                            IF @.exists THEN RefreshWrite(@, JsonLoads(@.val)) ELSE @]
    /\ spawned' = spawned \cup {[auth |-> user, conv |-> conversationId]}
    /\ received' = MessageOf(user, conversationId, "")
    /\ UNCHANGED handlerEmits
    /\ UNCHANGED <<agentRuns, terminated, userIndex, teardowns, sandboxApiUrl, nextSandbox,
                   opsBegun, call>>
    /\ UNCHANGED storeFaults
    /\ UNCHANGED notSocketVars

\* A chat message whose token is user's: get_session, create_session when
\* there is none, and the run is spawned.
on_send_message(user, conversationId) ==
    /\ handled < MaxMessages
    /\ handled' = handled + 1
    /\ IF redisSession[conversationId].exists
       THEN /\ redisSession' = [redisSession EXCEPT ![conversationId] =
                                    RefreshWrite(@, JsonLoads(@.val))]
            /\ UNCHANGED userIndex
       ELSE /\ redisSession' = [redisSession EXCEPT ![conversationId] =
                  SetEx(JsonDumps(NewSessionData(user, ClientConfig(user))))]
            /\ userIndex' = [userIndex EXCEPT ![user] =
                  Expire(SAdd(CleanedIndex(@, redisSession), conversationId), SESSION_TTL)]
    /\ spawned' = spawned \cup {[auth |-> user, conv |-> conversationId]}
    /\ received' = MessageOf(user, conversationId, "")
    /\ UNCHANGED handlerEmits
    /\ UNCHANGED <<agentRuns, terminated, teardowns, sandboxApiUrl, nextSandbox, opsBegun, call>>
    /\ UNCHANGED storeFaults
    /\ UNCHANGED notSocketVars

\* run_agent_and_stream begins: get_session(conversation_id) finds the
\* session, user_id = session_data['user_id'], get_llm_os(user_id=user_id, ...).
RunSetupOf(run) ==
    /\ run \in spawned
    /\ redisSession[run.conv].exists
    /\ redisSession' = [redisSession EXCEPT ![run.conv] = RefreshWrite(@, JsonLoads(@.val))]
    /\ agentRuns' = agentRuns \cup
          {[auth |-> run.auth, conv |-> run.conv,
            user_id |-> JsonLoads(redisSession[run.conv].val).user_id]}
    /\ spawned' = spawned \ {run}
    /\ UNCHANGED <<handled, terminated, received, handlerEmits, userIndex, teardowns,
                   sandboxApiUrl, nextSandbox, opsBegun, call>>
    /\ UNCHANGED storeFaults
    /\ UNCHANGED notSocketVars

\* The session is gone when the run begins: "Session data not found".
RunSessionNotFoundOf(run) ==
    /\ run \in spawned
    /\ ~redisSession[run.conv].exists
    /\ spawned' = spawned \ {run}
    /\ UNCHANGED <<handled, agentRuns, terminated, received, handlerEmits, sessionVars>>
    /\ UNCHANGED notSocketVars

\* The runs spawned and not yet begun, each in a green thread of its own.
RunSetup == \E run \in spawned : RunSetupOf(run)
RunSessionNotFound == \E run \in spawned : RunSessionNotFoundOf(run)

NextSockets ==
    \/ \E data \in Messages : SendMessageRejected(data)
    \/ \E user \in Users, conversationId \in Convs : SendTerminate(user, conversationId)
    \/ \E user \in Users, conversationId \in Convs : on_send_message(user, conversationId)
    \/ RunSetup
    \/ RunSessionNotFound

NextTasks ==
    \/ \E p \in Pollers : start(p)
    \/ \E p \in Pollers : stop(p)
    \/ \E p \in Pollers, k \in LoopIds : PollExit(p, k)
    \/ \E p \in Pollers, k \in LoopIds : PollQuery(p, k)
    \/ \E p \in Pollers, k \in LoopIds : PollQueryFail(p, k)
    \/ \E p \in Pollers, k \in LoopIds, t \in Tasks : PollSkip(p, k, t)
    \/ \E p \in Pollers, k \in LoopIds, t \in Tasks : PollNotProcessing(p, k, t)
    \/ \E p \in Pollers, k \in LoopIds, t \in Tasks : ClaimTask(p, k, t)
    \/ \E p \in Pollers, k \in LoopIds, t \in Tasks : ClaimFail(p, k, t)
    \/ \E p \in Pollers, x \in UnitIds, t \in Tasks : ExecFetch(p, x, t)
    \/ \E p \in Pollers, x \in UnitIds, t \in Tasks : ExecFetchNone(p, x, t)
    \/ \E p \in Pollers, x \in UnitIds, t \in Tasks : ExecFetchRaise(p, x, t)
    \/ \E p \in Pollers, x \in UnitIds, t \in Tasks : AgentSaveWork(p, x, t)
    \/ \E p \in Pollers, x \in UnitIds, t \in Tasks : AgentMarkComplete(p, x, t)
    \/ \E p \in Pollers, x \in UnitIds, t \in Tasks : AgentReturn(p, x, t)
    \/ \E p \in Pollers, x \in UnitIds, t \in Tasks : AgentRaise(p, x, t)
    \/ \E p \in Pollers, x \in UnitIds, t \in Tasks : ExecRevert(p, x, t)
    \/ \E p \in Pollers, x \in UnitIds, t \in Tasks : ExecRevertFail(p, x, t)
    \/ \E p \in Pollers, x \in UnitIds, t \in Tasks : ExecFinish(p, x, t)
    \/ \E t \in Tasks : CancelTask(t)
    \/ \E t \in Tasks : DeleteTask(t)

\* One specification per component, the other components at rest.
InitTasks == TasksInit /\ SessionsQuiet /\ BridgeQuiet /\ StreamInit /\ SocketsInit
InitSessions == TasksInit /\ SessionsInit /\ BridgeQuiet /\ StreamInit /\ SocketsInit
InitBridge == TasksInit /\ SessionsQuiet /\ BridgeInit /\ StreamInit /\ SocketsInit
InitStream == TasksInit /\ SessionsQuiet /\ BridgeQuiet /\ StreamInit /\ SocketsInit
InitSockets == TasksInit /\ SessionsQuiet /\ BridgeQuiet /\ StreamInit /\ SocketsInit

SpecTasks == InitTasks /\ [][NextTasks]_vars

\* A step of loop thread k of poller p (_poll_loop and the cycle it runs).
PollStep(p, k) ==
    \/ PollExit(p, k)
    \/ PollQuery(p, k)
    \/ PollQueryFail(p, k)
    \/ \E t \in Tasks :
        PollSkip(p, k, t) \/ PollNotProcessing(p, k, t) \/ ClaimTask(p, k, t) \/ ClaimFail(p, k, t)

\* A loop thread is an operating-system thread of its own: it is scheduled,
\* every call it makes returns or raises (the store client has timeouts) and
\* time.sleep(poll_interval) returns, so a step it can take is taken.
SpecTasksLive ==
    InitTasks /\ [][NextTasks]_vars /\ \A p \in Pollers, k \in LoopIds : WF_vars(PollStep(p, k))

SpecSessions == InitSessions /\ [][NextSessions]_vars

\* The session store with commands that raise because Redis is unreachable.
NextSessionsFaulty == NextSessions \/ NextStoreFaults

SpecSessionsFaulty == InitSessions /\ [][NextSessionsFaulty]_vars

SpecBridge == InitBridge /\ [][NextBridge]_vars

SpecStream == InitStream /\ [][NextStream]_vars

SpecSockets == InitSockets /\ [][NextSockets]_vars

(***************************************************************************)
(* Claims about the task scheduler / executor                              *)
(***************************************************************************)
\* A step in which poller p dispatches execution thread x for task t.
Dispatches(p, x, t) == exec[<<p, x, t>>] = "idle" /\ exec'[<<p, x, t>>] = "spawned"

\* C1: the claim is an atomic conditional transition: of two scheduler
\* instances that both read T as pending, at most one moves T to in_progress
\* and dispatches an execution of T; a claim write on a task that another
\* instance has already claimed (status in_progress) has no effect and
\* dispatches nothing.
C1_AtMostOneClaimer ==
    [][\A p \in Pollers, x \in UnitIds, t \in Tasks :
        Dispatches(p, x, t) => taskStatus[t] # "in_progress"]_vars

\* C1 (case): two scheduler instances run an execution of the same task.
C1_DoubleDispatch ==
    \E t \in Tasks : \E p, q \in Pollers : \E x, y \in UnitIds :
        /\ p # q
        /\ exec[<<p, x, t>>] \in {"spawned", "agent"}
        /\ exec[<<q, y, t>>] \in {"spawned", "agent"}

\* C2: when the execution of a claimed task T raises, the exception handler
\* leaves T's status pending (not in_progress, not completed), and when the
\* execution unit ends T's id is no longer in the guard set.
C2_RaisedEndsPending ==
    [][\A p \in Pollers, x \in UnitIds, t \in Tasks :
        /\ (exec[<<p, x, t>>] = "raised" /\ exec'[<<p, x, t>>] = "handled"
              /\ taskStatus[t] # "absent")
           => taskStatus'[t] = "pending"
        /\ (exec[<<p, x, t>>] = "handled" /\ exec'[<<p, x, t>>] = "idle")
           => t \notin processing_tasks'[p]]_vars

\* C2 (case): a claimed task is left in_progress although no execution
\* unit of any poller is working on it and no guard set holds its id.
C2_StuckInProgress ==
    \E t \in Tasks :
        /\ taskStatus[t] = "in_progress"
        /\ \A p \in Pollers : t \notin processing_tasks[p]
        /\ \A p \in Pollers, x \in UnitIds : exec[<<p, x, t>>] = "idle"

\* C13: cancelled is a terminal task status: once a task is cancelled (by an
\* external action, while it was pending or in_progress), no step of the
\* scheduler, of the rollback path or of the execution context changes its
\* status to any other one (the row may still be deleted from outside).
C13_CancelledIsTerminal ==
    [][\A t \in Tasks :
        taskStatus[t] = "cancelled" => taskStatus'[t] \in {"cancelled", "absent"}]_vars

\* C13 (case): a task is cancelled while a scheduler still holds it in the
\* result of its query, or while an execution of it is under way.
C13_CancelledUnderway ==
    \E t \in Tasks : \E p \in Pollers :
        /\ taskStatus[t] = "cancelled"
        /\ \/ \E k \in LoopIds : pollPc[p][k] = "iter" /\ t \in pending_tasks[p][k]
           \/ \E x \in UnitIds : exec[<<p, x, t>>] \in {"agent", "raised"}

\* C14: the polling loop keeps running for as long as the poller is running:
\* no failed task execution, failed claim write or failed query ends the loop
\* thread (it ends only once `running` has been cleared), and every cycle it
\* begins comes back to the loop test, where the next scan starts.
C14_LoopKeepsRunning ==
    /\ [][\A p \in Pollers, k \in LoopIds :
            (pollPc[p][k] # "none" /\ pollPc'[p][k] = "none") => ~running[p]]_vars
    /\ \A p \in Pollers, k \in LoopIds : (pollPc[p][k] = "iter") ~> (pollPc[p][k] = "top")

\* C14 (case): an execution of a claimed task has failed and rolled back, the
\* task is pending again, and the poller that ran it is back at its loop test,
\* still running.
C14_ScanningAfterFailure ==
    \E p \in Pollers : \E k \in LoopIds : \E x \in UnitIds : \E t \in Tasks :
        /\ exec[<<p, x, t>>] = "handled"
        /\ taskStatus[t] = "pending"
        /\ running[p]
        /\ pollPc[p][k] = "top"

\* C19: rollback never reopens finished work: once the execution context
\* has marked a task completed, no later failure of the same execution and no
\* rollback sets it back to pending, so it is not claimed and run again.
C19_CompletedNeverReopened ==
    [][\A t \in Tasks :
        taskStatus[t] = "completed" => taskStatus'[t] # "pending"]_vars

\* C19 (case): the agent has marked the task completed and saved its work,
\* and the same execution has then raised: its except handler is about to run.
C19_CompletedThenRaised ==
    \E t \in Tasks : \E p \in Pollers : \E x \in UnitIds :
        /\ taskStatus[t] = "completed"
        /\ taskWork[t]
        /\ exec[<<p, x, t>>] = "raised"

\* C20: every claimed task leaves in_progress: when the execution unit of a
\* task ends (it returned, it failed, or it found no row) and no other
\* execution of the task is under way, the task is not in_progress any more.
C20_FinishedLeavesInProgress ==
    [][\A p \in Pollers, x \in UnitIds, t \in Tasks :
        (/\ exec[<<p, x, t>>] \in {"returned", "handled"}
         /\ exec'[<<p, x, t>>] = "idle"
         /\ \A u \in (Pollers \X UnitIds) \ {<<p, x>>} : exec[<<u[1], u[2], t>>] = "idle")
        => taskStatus'[t] # "in_progress"]_vars

\* C20 (case): the agent run of the only execution of a task has returned
\* without having marked the task completed; the task is in_progress.
C20_ReturnedStillInProgress ==
    \E t \in Tasks : \E p \in Pollers : \E x \in UnitIds :
        /\ exec[<<p, x, t>>] = "returned"
        /\ taskStatus[t] = "in_progress"
        /\ \A u \in (Pollers \X UnitIds) \ {<<p, x>>} : exec[<<u[1], u[2], t>>] = "idle"

\* C26: after any sequence of start() and stop() calls on one TaskPoller, at
\* most one polling loop is active for it: start() on a running poller starts
\* nothing, and a start() issued after stop() never leaves the previous loop
\* (which may still be sleeping in its poll interval) running alongside the
\* new one.
C26_AtMostOneLoop == \A p \in Pollers : Cardinality(LiveLoops(p)) <= 1

\* C26 (case): the poller was stopped and started again while its loop thread
\* was still alive; both loop threads are in the middle of a scan.
C26_TwoLoopsScanning ==
    \E p \in Pollers : \E k, j \in LoopIds :
        /\ k # j
        /\ running[p]
        /\ pollPc[p][k] = "iter"
        /\ pollPc[p][j] = "iter"

\* The execution units of task t that poller p has dispatched and that have
\* not ended.
RunningUnits(p, t) == {x \in UnitIds : exec[<<p, x, t>>] # "idle"}

\* C27: within one scheduler process, at most one execution unit per task id
\* is running at any time, across any number of poll cycles: a task whose
\* execution is still running is never dispatched a second time by that
\* process, even if its status has meanwhile been set back to pending.
C27_OneUnitPerTask ==
    \A p \in Pollers, t \in Tasks : Cardinality(RunningUnits(p, t)) <= 1

\* C27 (case): while an execution of a task was running, the task went back
\* to pending and a loop thread of the same poller had it in its query result;
\* two execution units of the same poller now run the agent for the task.
C27_TwoUnitsOfOnePoller ==
    \E p \in Pollers, t \in Tasks : \E x, y \in UnitIds :
        /\ x # y
        /\ exec[<<p, x, t>>] = "agent"
        /\ exec[<<p, y, t>>] = "agent"

\* Poller p has a loop thread that found t absent from the guard set and is
\* claiming it.
Claiming(p, t) == \E k \in LoopIds : task_id[p][k] = t

C29_CompletedHasWork ==
    \A t \in Tasks : taskStatus[t] = "completed" => taskWork[t]

\* C29 (case): the agent run of an execution has returned, it has marked the
\* task completed, and no work artifact was saved for the task.
C29_ReturnedCompletedNoWork ==
    \E p \in Pollers, t \in Tasks : \E x \in UnitIds :
        /\ exec[<<p, x, t>>] = "returned"
        /\ taskStatus[t] = "completed"
        /\ ~taskWork[t]

\* A step of scheduler or executor code: a loop thread moves, a claim is
\* made, an execution thread moves or the guard set changes.
SchedulerStep ==
    <<pollPc, pending_tasks, task_id, processing_tasks, exec, claims>>'
        # <<pollPc, pending_tasks, task_id, processing_tasks, exec, claims>>

StoredIds(c) == JsonLoads(redisSession[c].val).sandbox_ids

AllReturned == \A w \in Workers : call[w].op = "idle"

\* C6: in every reachable state, every stored session holds at most
\* MAX_SANDBOX_IDS sandbox ids, whatever create, get, attach and terminate
\* calls ran and however their steps interleaved on the same session.
C6_SandboxIdsBounded ==
    \A c \in Convs : redisSession[c].exists => Len(StoredIds(c)) <= MAX_SANDBOX_IDS

\* A session at its cap after an attach that had to evict the oldest id.
C6_FullAfterEviction ==
    \E c \in Convs :
        /\ redisSession[c].exists
        /\ Len(StoredIds(c)) = MAX_SANDBOX_IDS
        /\ Head(StoredIds(c)) # 1

\* A step in which no call moves: only time passes.
TimePasses == call' = call /\ opsBegun' = opsBegun

\* C7: a get that returns the session leaves the record's remaining TTL at
\* SESSION_TTL, and no step of a create, get, attach or terminate call
\* leaves a record it wrote with less than SESSION_TTL: only the passing of
\* time lowers a TTL.
C7_SlidingTtl ==
    [][/\ \A w \in Workers :
            (call[w].op = "get" /\ call'[w].op = "idle") =>
                /\ redisSession'[call[w].conv].exists
                /\ redisSession'[call[w].conv].ttl = SESSION_TTL
       /\ ~TimePasses =>
            \A c \in Convs :
                (redisSession'[c].exists /\ redisSession'[c] # redisSession[c]) =>
                    redisSession'[c].ttl = SESSION_TTL]_vars

\* The seeded session, never attached to nor re-created, back at the full
\* window although time has passed since its index entry was written: a get
\* has refreshed it.
C7_RefreshedAfterDecay ==
    /\ AllReturned
    /\ nextSandbox = MAX_SANDBOX_IDS
    /\ redisSession["conv-a"].exists
    /\ redisSession["conv-a"].ttl = SESSION_TTL
    /\ Len(StoredIds("conv-a")) = MAX_SANDBOX_IDS - 1
    /\ userIndex["user-a"].members = {"conv-a"}
    /\ userIndex["user-a"].ttl < SESSION_TTL

\* The six capability flags create_session switches on.
C8_CapabilityFlags ==
    {"enable_github", "enable_google_email", "enable_google_drive",
     "enable_browser", "enable_vercel", "enable_supabase"}

C8_Expected(cfg) ==
    [k \in DOMAIN cfg \cup C8_CapabilityFlags |->
        IF k \in C8_CapabilityFlags THEN TRUE ELSE cfg[k]]

\* C8 (as the code has it): what a get reads of a session is the config
\* passed to the create that built it with the six capability flags set to
\* true: every other key of the caller keeps its value, and a capability
\* flag the caller gave as false comes back true.
C8_RoundTripMerged ==
    \A w \in Workers :
        call[w].op = "get" =>
            call[w].data.config = C8_Expected(call[w].data.created_with)

\* A get has read a session created with a config that switched the browser
\* capability off and set another key.
C8_GetAfterCreate ==
    \E w \in Workers :
        /\ call[w].op = "get"
        /\ call[w].data.created_with = ClientConfig("user-b")
        /\ call[w].data.created_with["enable_browser"] = FALSE
        /\ call[w].data.config["enable_browser"] = TRUE
        /\ call[w].data.config["coding_assistant"] = TRUE

\* C8 (as the specification has it): the config a get returns is the cfg
\* passed to create, every key supplied by the caller still having the
\* value the caller gave it.
C8_CallerKeysKept ==
    \A w \in Workers :
        call[w].op = "get" =>
            \A k \in DOMAIN call[w].data.created_with :
                call[w].data.config[k] = call[w].data.created_with[k]

\* First in, first out: the list after attaching `new` to `ids`.
C9_Fifo(ids, new) ==
    IF Len(ids) < MAX_SANDBOX_IDS THEN Append(ids, new)
    ELSE Append(SubSeq(ids, 2, Len(ids)), new)

\* C9 (as the code has it): an attach writes the list it read with the new
\* id appended, the oldest id dropped first when that list was full; on a
\* full list it issues one teardown request, for that oldest id, when a
\* sandbox API URL is configured and none when it is not; on a list that is
\* not full it evicts nothing and issues no request.
C9_EvictOldestOneTeardown ==
    [][\A w \in Workers :
        call[w].op = "add" =>
            LET read == call[w].data.sandbox_ids
                c == call[w].conv
            IN  /\ call'[w].op = "idle" =>
                    /\ redisSession'[c].exists
                    /\ JsonLoads(redisSession'[c].val).sandbox_ids =
                           C9_Fifo(read, call[w].sandbox)
                    /\ teardowns' = teardowns
                /\ (call[w].pc = "refresh" /\ call'[w].pc = "set") =>
                    /\ Len(read) < MAX_SANDBOX_IDS
                    /\ teardowns' = teardowns
                /\ (call[w].pc = "refresh" /\ call'[w].pc = "evict") =>
                    /\ Len(read) = MAX_SANDBOX_IDS
                    /\ teardowns' = teardowns
                /\ (call[w].pc = "evict" /\ call'[w].pc = "set") =>
                    teardowns' = IF sandboxApiUrl
                                 THEN [teardowns EXCEPT ![read[1]] = @ + 1]
                                 ELSE teardowns]_vars

\* MAX_SANDBOX_IDS + 1 ids attached one after the other: the last
\* MAX_SANDBOX_IDS are retained in attach order and the one teardown request
\* made is for the first id.
C9_OverflowScenario ==
    /\ AllReturned
    /\ sandboxApiUrl
    /\ redisSession["conv-a"].exists
    /\ StoredIds("conv-a") = [i \in 1..MAX_SANDBOX_IDS |-> i + 1]
    /\ teardowns = [s \in Sandboxes |-> IF s = 1 THEN 1 ELSE 0]

\* C9 (as the specification has it): every attach on a full session issues
\* exactly one teardown request, for the id it evicts.
C9_AlwaysOneTeardown ==
    [][\A w \in Workers :
        (call[w].op = "add" /\ call[w].pc = "evict" /\ call'[w].pc = "set") =>
            LET oldest == Head(call[w].data.sandbox_ids)
            IN  teardowns'[oldest] = teardowns[oldest] + 1]_vars

\* C11: a terminate that finds no record for its conversation id returns
\* having issued no teardown request and changed no record and no index
\* set; and a terminate that ran to its end leaves no record, so that a
\* second terminate right after it is such a no-op and the two calls leave
\* the store and the teardown requests as the first one did.
C11_TerminateMissingIsNoOp ==
    [][\A w \in Workers :
        /\ (/\ call[w].op = "terminate" /\ call[w].pc = "get"
            /\ ~redisSession[call[w].conv].exists
            /\ call'[w] # call[w]) =>
              /\ call'[w].op = "idle"
              /\ redisSession' = redisSession
              /\ userIndex' = userIndex
              /\ teardowns' = teardowns
        /\ (/\ call[w].op = "terminate" /\ call[w].pc = "delete"
            /\ call'[w].op = "idle") =>
              ~redisSession'[call[w].conv].exists]_vars

\* A first terminate has torn the seeded session down (one request per
\* sandbox, record gone) and a second terminate of the same id is about to
\* read the store.
C11_SecondTerminateFindsNothing ==
    \E w \in Workers :
        /\ call[w].op = "terminate" /\ call[w].pc = "get" /\ call[w].conv = "conv-a"
        /\ opsBegun = 2
        /\ \A v \in Workers \ {w} : call[v].op = "idle"
        /\ ~redisSession["conv-a"].exists
        /\ \A s \in 1..(MAX_SANDBOX_IDS - 1) : teardowns[s] = 1

\* C12 (as the code has it): a terminate that found the record sends one
\* teardown request for each sandbox id of the record when a sandbox API URL
\* is configured and none when it is not; whichever requests fail, it goes
\* on to take the conversation id out of the index set of the record's user
\* and to delete the record, and returns.
C12_TerminateTearsDownAndDeletes ==
    [][\A w \in Workers :
        call[w].op = "terminate" =>
            LET ids == call[w].data.sandbox_ids
                c == call[w].conv
            IN  /\ (call[w].pc = "teardown" /\ call'[w] # call[w]) =>
                    /\ call'[w].op = "terminate" /\ call'[w].pc = "srem"
                    /\ \A s \in Sandboxes :
                          teardowns'[s] =
                              IF sandboxApiUrl /\ \E i \in DOMAIN ids : ids[i] = s
                              THEN teardowns[s] + 1 ELSE teardowns[s]
                /\ (call[w].pc = "srem" /\ call'[w] # call[w]) =>
                    /\ call'[w].op = "terminate" /\ call'[w].pc = "delete"
                    /\ c \notin userIndex'[call[w].data.user_id].members
                /\ (call[w].pc = "delete" /\ call'[w] # call[w]) =>
                    /\ call'[w].op = "idle"
                    /\ ~redisSession'[c].exists]_vars

\* A terminate of the seeded session whose second teardown request failed:
\* all four requests were sent, the id is out of the user's index and the
\* record is about to be deleted.
C12_TerminatedDespiteFailure ==
    \E w \in Workers :
        /\ call[w].op = "terminate" /\ call[w].pc = "delete"
        /\ call[w].failed = {2}
        /\ \A s \in 1..(MAX_SANDBOX_IDS - 1) : teardowns[s] = 1
        /\ "conv-a" \notin userIndex["user-a"].members

\* C12 (as the specification has it): a terminate of an existing session
\* issues one teardown request for each sandbox id attached to it.
C12_OneTeardownPerId ==
    [][\A w \in Workers :
        (/\ call[w].op = "terminate" /\ call[w].pc = "teardown"
         /\ call'[w] # call[w]) =>
            \A i \in DOMAIN call[w].data.sandbox_ids :
                teardowns'[call[w].data.sandbox_ids[i]] =
                    teardowns[call[w].data.sandbox_ids[i]] + 1]_vars


\* A step of a get_session or add_sandbox_to_session call.
C21_ReaderStep == \E w \in Workers : call[w].op \in {"get", "add"} /\ call'[w] # call[w]

\* C21: no resource id is lost: with a sandbox API URL configured, a write
\* to a live session record by a get or an attachResource call, also one
\* interleaved with another call on the same session, leaves every id the
\* record held either in the record or with a teardown request issued for it.
C21_NoResourceIdLost ==
    [][\A c \in Convs :
        (sandboxApiUrl /\ C21_ReaderStep /\ redisSession[c].exists /\ redisSession'[c].exists)
        => \A s \in Range(StoredIds(c)) :
              s \in Range(JsonLoads(redisSession'[c].val).sandbox_ids) \/ teardowns'[s] > 0]_vars

\* C21 (case): two attachResource calls on conv-a have both returned True
\* (ids 5 and 6 were handed out, no call is under way); the record holds one
\* of the two ids, and the other is neither stored nor torn down.
C21_AcceptedIdLost ==
    /\ sandboxApiUrl
    /\ \A w \in Workers : call[w].op = "idle"
    /\ nextSandbox = MAX_SANDBOX_IDS + 2
    /\ redisSession["conv-a"].exists
    /\ \E s \in {MAX_SANDBOX_IDS, MAX_SANDBOX_IDS + 1} :
          /\ s \notin Range(StoredIds("conv-a"))
          /\ teardowns[s] = 0

\* C22: termination is not undone by concurrent readers: once terminate has
\* deleted the record of a conversation, no step of a get or attachResource
\* call (one that read the record before the delete) writes a record for it
\* again; the record stays absent until a create.
C22_TerminateNotUndone ==
    [][\A c \in Convs :
        (redisSession[c].deleted /\ C21_ReaderStep) => ~redisSession'[c].exists]_vars

\* C22 (case): terminate has just deleted the record of a conversation that
\* a get or attachResource call of the other worker has read and is about to
\* write back.
C22_DeletedUnderReader ==
    \E c \in Convs : \E w \in Workers :
        /\ redisSession[c].deleted
        /\ call[w].op \in {"get", "add"}
        /\ call[w].conv = c

\* C23: index consistency: every conversation id whose session record
\* exists is a member of the index set of the user stored in the record (a
\* create_session call that has written the record and not yet returned
\* aside), also when the session is kept alive by reads and when another
\* session is created for the same user.
C23_RecordIsIndexed ==
    \A c \in Convs :
        (redisSession[c].exists
           /\ ~\E w \in Workers : call[w].op = "create" /\ call[w].conv = c)
        => c \in userIndex[JsonLoads(redisSession[c].val).user_id].members

\* C23 (case): the only call made so far was a get of conv-a (or an
\* attach, which begins with one), which refreshed the record; time has
\* passed, the record is live and the index set of its user has expired.
C23_IndexExpiredRecordLive ==
    /\ opsBegun = 1
    /\ \A w \in Workers : call[w].op = "idle"
    /\ redisSession["conv-a"].exists
    /\ userIndex["user-a"] = NoIndex

\* C31: after create(c, u, cfg) completes, a record for c exists with user
\* id u, an empty resource list and remaining TTL SESSION_TTL; c is a member
\* of u's index set and that index set's remaining TTL is SESSION_TTL,
\* whatever record (if any) existed for c before, which is overwritten; every
\* default capability flag is present in the stored config.  Step by step:
\* the SET writes that record over whatever was there, the SADD makes c a
\* member, the EXPIRE sets the index TTL, and the later steps of the call
\* leave what the earlier ones wrote.
C31_CreatePostcondition ==
    [][\A w \in Workers :
        call[w].op = "create" =>
            LET c == call[w].conv
                u == call[w].user
            IN  /\ (call[w].pc = "set" /\ call'[w] # call[w]) =>
                    /\ call'[w].pc = "sadd"
                    /\ redisSession'[c].exists
                    /\ redisSession'[c].ttl = SESSION_TTL
                    /\ JsonLoads(redisSession'[c].val).user_id = u
                    /\ JsonLoads(redisSession'[c].val).sandbox_ids = <<>>
                    /\ \A k \in DOMAIN DefaultFlags :
                          /\ k \in DOMAIN JsonLoads(redisSession'[c].val).config
                          /\ JsonLoads(redisSession'[c].val).config[k]
                /\ (call[w].pc = "sadd" /\ call'[w] # call[w]) =>
                    /\ call'[w].pc = "expire"
                    /\ c \in userIndex'[u].members
                    /\ redisSession' = redisSession
                /\ (call[w].pc = "expire" /\ call'[w] # call[w]) =>
                    /\ call'[w].op = "idle"
                    /\ userIndex'[u].members = userIndex[u].members
                    /\ c \in userIndex[u].members => userIndex'[u].ttl = SESSION_TTL
                    /\ redisSession' = redisSession]_vars

\* C31 (case): the one call made was create(conv-a, user-b, cfg) and it has
\* returned: the seeded record of user-a is overwritten by an empty session
\* of user-b with the full TTL, indexed under user-b with the full TTL.
C31_CreatedOverExisting ==
    /\ opsBegun = 1
    /\ AllReturned
    /\ redisSession["conv-a"].exists
    /\ redisSession["conv-a"].ttl = SESSION_TTL
    /\ JsonLoads(redisSession["conv-a"].val).user_id = "user-b"
    /\ StoredIds("conv-a") = <<>>
    /\ userIndex["user-b"] = [members |-> {"conv-a"}, ttl |-> SESSION_TTL]

C34_SweepRemovesOnlyDangling ==
    [][\A w \in Workers :
        (call[w].op \in {"create", "sweep"} /\ call'[w] # call[w]) =>
            /\ (call[w].pc = "cleanup" /\ call'[w].pc = "srem") =>
                  ~redisSession[call'[w].target].exists
            /\ (call[w].pc \in {"cleanup", "srem", "smembers"}) =>
                  redisSession' = redisSession]_vars

\* One call has run, no time has passed, the record of conv-a is stored as
\* it was, and conv-a is no longer in the index set of its user.
C34_LiveIdSwept ==
    /\ AllReturned
    /\ opsBegun = 1
    /\ redisSession["conv-a"] = SeededKey("user-a", MAX_SANDBOX_IDS - 1)
    /\ "conv-a" \notin userIndex["user-a"].members

\* C36: every Redis command that raises ends the call it belongs to with
\* the exception raised to the caller: the commands that raised and the
\* calls that raised stay equal in number, so no call answers a failure of
\* the store with a value (a count, None, a session) or goes on to succeed.
C36_StoreErrorRaised ==
    [][storeFaults'.errors # storeFaults.errors =>
          /\ storeFaults'.raised = storeFaults.raised + 1
          /\ storeFaults'.count = storeFaults.count
          /\ \A w \in Workers : call'[w] # call[w] => call'[w] = Idle]_vars

\* user-a has a session stored and indexed; a command of
\* get_active_session_count raised and the caller was answered 0, no call
\* having raised.
C36_ZeroCountOnStoreError ==
    /\ storeFaults = [errors |-> 1, raised |-> 0, count |-> 0]
    /\ opsBegun = 0
    /\ redisSession["conv-a"].exists
    /\ "conv-a" \in userIndex["user-a"].members

(***************************************************************************)
(* Claims about the message handler                                        *)
(***************************************************************************)
\* C25: tenant isolation of sessions: every agent built for a turn that was
\* authenticated as user u runs with user id u, and every session terminated
\* on a request authenticated as user u is owned by u.
C25_TenantIsolation ==
    /\ \A run \in agentRuns : run.user_id = run.auth
    /\ \A t \in terminated : t.owner = t.auth

\* C25 (case): a turn authenticated as one user has built its agent under
\* another user's id, and a session has been terminated on the request of a
\* user who does not own it.
C25_RunsAndTerminatesAsOther ==
    /\ \E run \in agentRuns : run.user_id # run.auth
    /\ \E t \in terminated : t.owner # t.auth

\* C32: get(c) for a conversation id with no record returns NotFound and
\* changes nothing in the store (no record, index entry or TTL is created or
\* modified); the turn handler treats the miss as "needs creation" and creates
\* the session, so a turn with a valid token is never rejected because its
\* session did not exist yet: every turn the handler dispatches has a session
\* record, created for the sender when there was none, and a run finds no
\* session only after a terminate of that conversation.
C32_MissIsNeedsCreation ==
    [][/\ \A run \in spawned :
            (run \notin spawned' /\ ~redisSession[run.conv].exists) =>
                /\ agentRuns' = agentRuns
                /\ <<redisSession, userIndex, teardowns>>' = <<redisSession, userIndex, teardowns>>
                /\ \E t \in terminated : t.conv = run.conv
       /\ \A run \in spawned' \ spawned :
            /\ redisSession'[run.conv].exists
            /\ ~redisSession[run.conv].exists =>
                  /\ JsonLoads(redisSession'[run.conv].val).user_id = run.auth
                  /\ run.conv \in userIndex'[run.auth].members]_vars

\* C32 (case): the first message of a client, for a conversation that had no
\* session: the handler created one and the run it spawned has built its
\* agent.
C32_FirstTurnRuns ==
    /\ handled = 1
    /\ spawned = {}
    /\ terminated = {}
    /\ \E run \in agentRuns : redisSession[run.conv].exists /\ run.user_id = run.auth

\* C35: a send_message payload without an access token, or with a token
\* that names no user, makes the handler emit one error event to the sender
\* and nothing else: no session record, index set or teardown request
\* changes (nothing created, refreshed or terminated), no run is spawned and
\* no status event is emitted.
C35_BadTokenOnlyErrorEvent ==
    [][(/\ handled' # handled
        /\ received'.accessToken = "" \/ get_user(received'.accessToken) = NoUser) =>
            /\ handlerEmits' = HandlerEmit(handlerEmits, "error")
            /\ <<redisSession, userIndex, teardowns>>' = <<redisSession, userIndex, teardowns>>
            /\ <<spawned, agentRuns, terminated>>' = <<spawned, agentRuns, terminated>>]_vars

\* A terminate_session payload with a token that names no user was handled
\* for a conversation whose session exists, after a turn of that
\* conversation: the session is still there and the one event emitted is
\* the error.
C35_StaleTokenTerminateRefused ==
    /\ handled = 2
    /\ received.accessToken = "stale"
    /\ received.type = "terminate_session"
    /\ received.conversationId \in Convs
    /\ redisSession[received.conversationId].exists
    /\ handlerEmits = [event \in {"error", "status"} |-> IF event = "error" THEN 1 ELSE 0]

(***************************************************************************)
(* Claims about the remote-command bridge                                  *)
(***************************************************************************)
\* C3: for every request id at most one result is returned to the waiting
\* caller, and once the call has ended - by a reply, by timeout or by an
\* exception - exactly one result has been returned and the subscription on
\* the request's response channel is gone: no subscription of a finished
\* command remains.
C3_OneResultSubscriptionReleased ==
    \A r \in Requests :
        /\ Len(returned[r]) <= 1
        /\ bridgePc[r] = "done" =>
              /\ Len(returned[r]) = 1
              /\ <<"browser-response", r>> \notin subscriptions

\* Three commands have ended, one by a reply, one by timeout, one by an
\* exception after it had subscribed, and nothing is subscribed any more.
C3_AllExitPathsTaken ==
    /\ \A r \in Requests : bridgePc[r] = "done"
    /\ \E r \in Requests : returned[r][1].kind = "reply"
    /\ \E r \in Requests : returned[r][1].kind = "timeout"
    /\ \E r \in Requests : returned[r][1].kind = "error" /\ r \in pushed
    /\ subscriptions = {}

\* C4: a command is pushed to the client only once the subscription on the
\* response channel of its request id exists, and a result the handler
\* publishes for a request whose caller is waiting is delivered to that
\* caller's subscription: it is never lost for lack of a listener.
C4_SubscribedBeforePush ==
    [][\A r \in Requests :
        /\ (r \in pushed' /\ r \notin pushed) =>
              <<"browser-response", r>> \in subscriptions
        /\ (Len(published'[r]) = Len(published[r]) + 1 /\ bridgePc[r] = "waiting") =>
              /\ Len(inbox'[r]) = Len(inbox[r]) + 1
              /\ inbox'[r][Len(inbox'[r])][2] \in Payloads \cup {"{}"}]_vars

\* A caller is waiting and every result published for its request so far,
\* at least one, sits in its subscription.
C4_EarlyReplyDelivered ==
    \E r \in Requests :
        /\ bridgePc[r] = "waiting"
        /\ Len(published[r]) >= 1
        /\ Len(inbox[r]) = Len(published[r])

\* C18: when the wait of a command ends and a reply of the client has been
\* published for its request id by then, the call returns the payload of that
\* reply, exactly as the client sent it (unless the wait itself failed, which
\* yields an error value); when no reply has been published by then, the call
\* returns a timeout value (or an error value) rather than raising; and in the
\* step in which the call returns its value the subscription on the request's
\* response channel is gone.
C18_ReplyVerbatimOrTimeout ==
    [][\A r \in Requests :
        /\ (bridgePc[r] = "waiting" /\ bridgePc'[r] = "closing") =>
              /\ (published[r] # <<>> /\ published[r][1] \in Payloads) =>
                    \/ held'[r] = [kind |-> "reply", payload |-> published[r][1]]
                    \/ held'[r].kind = "error"
              /\ published[r] = <<>> => held'[r].kind \in {"timeout", "error"}
        /\ (bridgePc[r] = "closing" /\ bridgePc'[r] = "done") =>
              /\ returned'[r] = <<held[r]>>
              /\ held[r].kind \in {"reply", "timeout", "error"}
              /\ <<"browser-response", r>> \notin subscriptions']_vars

\* C18 (case): one command has returned the reply the client sent for it
\* ("denied"), another has returned the timeout value with no reply
\* published for it, and neither is subscribed any more.
C18_ReplyAndTimeoutReturned ==
    \E r, q \in Requests :
        /\ bridgePc[r] = "done" /\ bridgePc[q] = "done"
        /\ published[r] # <<>> /\ published[r][1] = "denied"
        /\ returned[r] = <<[kind |-> "reply", payload |-> "denied"]>>
        /\ published[q] = <<>>
        /\ returned[q] = <<[kind |-> "timeout", payload |-> ""]>>
        /\ <<"browser-response", r>> \notin subscriptions
        /\ <<"browser-response", q>> \notin subscriptions

\* C38: a result the handler publishes is published once, on the response
\* channel of the request id it carries and on no other: in a step of the
\* handler at most one request gains a published result, and only one; the
\* subscription of that request, if there is one, gains exactly that
\* payload, and no other caller's subscription gains anything, whichever
\* commands are outstanding in whichever order; a result without a request
\* id (no request gains a published result) reaches no subscription.
C38_OwnChannelAtMostOnce ==
    [][replies' # replies =>
        \A r \in Requests :
            /\ published'[r] = published[r] => inbox'[r] = inbox[r]
            /\ published'[r] # published[r] =>
                  /\ Len(published'[r]) = Len(published[r]) + 1
                  /\ \A q \in Requests \ {r} : published'[q] = published[q]
                  /\ inbox'[r] =
                        IF SubscriptionChannel(r) \in subscriptions
                        THEN Append(inbox[r],
                                    JsonDumpsResult(IF published'[r][Len(published'[r])] = NoResult
                                                    THEN "{}"
                                                    ELSE published'[r][Len(published'[r])]))
                        ELSE inbox[r]]_vars

\* Two commands are outstanding, both callers waiting, and the client has
\* answered both: each subscription holds the result of its own request.
C38_TwoOutstandingEachOwnResult ==
    /\ bridgePc["req-x"] = "waiting" /\ bridgePc["req-y"] = "waiting"
    /\ published["req-x"] = <<"success">> /\ published["req-y"] = <<"denied">>
    /\ inbox["req-x"] = <<JsonDumpsResult("success")>>
    /\ inbox["req-y"] = <<JsonDumpsResult("denied")>>
    /\ dropped = {}

\* C38 (as the specification has it): every result that carries a request
\* id is published, exactly once: the handler drops none.
C38_EveryResultPublished == dropped = {}

(***************************************************************************)
(* Claims about the stream multiplexer                                     *)
(***************************************************************************)
DoneCount == Cardinality({i \in DOMAIN emitted : emitted[i].type = "done"})

\* C5: for a dispatched turn exactly one done event is emitted, also when
\* the agent run raises mid-stream: a finished turn has emitted one done,
\* never zero and never two.
C5_ExactlyOneDone == streamPc = "finished" => DoneCount = 1

\* The run raised after chunks had been relayed: the turn has finished with
\* the error event as its last event.
C5_RaisedMidStream ==
    /\ streamPc = "finished"
    /\ Len(consumed) >= 1
    /\ emitted # <<>>
    /\ emitted[Len(emitted)].type = "error"
    /\ request_logs = <<>>

ErrorCount == Cardinality({i \in DOMAIN emitted : emitted[i].type = "error"})

\* A step in which an exception is raised in the setup of the turn or in the
\* drain of its event source: the step leaves the straight path (setup,
\* context, drain, bookkeeping after done).
C15_Raises ==
    /\ streamPc \in {"setup", "context", "drain"}
    /\ streamPc' \notin {"setup", "context", "drain", "metrics"}

\* The step appends the one error event of the turn and the function returns.
C15_OneErrorAndReturn ==
    /\ streamPc' = "finished"
    /\ emitted' = Append(emitted, ErrorEvent)
    /\ Cardinality({i \in DOMAIN emitted' : emitted'[i].type = "error"}) = 1

C16_Reported ==
    LET outs == SelectSeq(consumed, LAMBDA chunk : chunk.has_event /\ chunk.team_run_output)
    IN  IF outs = <<>> THEN NoChunk ELSE outs[Len(outs)]

\* The run reported token usage with input_tokens > 0 or output_tokens > 0.
C16_NonZeroUsage ==
    C16_Reported # NoChunk
      /\ (C16_Reported.input_tokens > 0 \/ C16_Reported.output_tokens > 0)

\* C16: a turn that completes cleanly (it has returned without an error
\* event) and whose run reported non-zero token usage has persisted exactly
\* one usage record, holding the reported counts; when the run reported no
\* metrics or both counts zero, or when the turn raised before done (in the
\* setup or while the run was drained), no usage record is persisted; never
\* more than one record is persisted for the turn.
C16_UsagePersistedOnce ==
    /\ Len(request_logs) <= 1
    /\ (streamPc = "finished" /\ ErrorCount = 0 /\ C16_NonZeroUsage) =>
          request_logs = <<[input_tokens |-> C16_Reported.input_tokens,
                            output_tokens |-> C16_Reported.output_tokens]>>
    /\ ~C16_NonZeroUsage => request_logs = <<>>
    /\ DoneCount = 0 => request_logs = <<>>

\* C16 (case): the run yielded an output with zero counts and then one with
\* 120 / 45 tokens; the turn has completed and one record is persisted.
C16_LastOutputPersisted ==
    /\ streamPc = "finished"
    /\ ErrorCount = 0
    /\ Len(consumed) = 2
    /\ consumed[1].team_run_output /\ consumed[1].input_tokens = 0
    /\ consumed[2].team_run_output /\ consumed[2].input_tokens = 120
    /\ Len(request_logs) = 1

\* The events a step of the loop added for the chunk it took.
C17_Added == SubSeq(emitted', Len(emitted) + 1, Len(emitted'))
C17_Taken == consumed'[Len(consumed')]

\* C17: the event emitted for a content chunk carries is_log = false if and
\* only if the chunk's owner is "Aetheria_AI" and the chunk has no member
\* responses, and is_log = true for every other content chunk; the event
\* emitted for a tool start / tool end chunk carries the chunk's owner and
\* the tool's name and has no is_log key.
C17_FinalIffCoordinatorAlone ==
    [][(Len(consumed') = Len(consumed) + 1 /\ C17_Taken.has_event) =>
         /\ C17_Taken.event \in {"RunContent", "TeamRunContent"} =>
               /\ Len(C17_Added) = 1
               /\ C17_Added[1].type = "content"
               /\ C17_Added[1].agent_name = C17_Taken.owner
               /\ "is_log" \in DOMAIN C17_Added[1]
               /\ C17_Added[1].is_log =
                     ~(C17_Taken.owner = "Aetheria_AI" /\ ~C17_Taken.member_responses)
         /\ C17_Taken.event \in {"ToolCallStarted", "TeamToolCallStarted",
                                  "ToolCallCompleted", "TeamToolCallCompleted"} =>
               /\ Len(C17_Added) = 1
               /\ C17_Added[1].type =
                     (IF C17_Taken.event \in {"ToolCallStarted", "TeamToolCallStarted"}
                      THEN "tool_start" ELSE "tool_end")
               /\ C17_Added[1].agent_name = C17_Taken.owner
               /\ C17_Added[1].tool_name = C17_Taken.tool_name
               /\ "is_log" \notin DOMAIN C17_Added[1]]_vars

\* C17 (case): the team's content with member responses was relayed as log,
\* its content without them as final, a member's content as log, and a tool
\* start went out with the tool's name and no tag.
C17_LogFinalLogTool ==
    /\ Len(consumed) = 4
    /\ Len(emitted) = 4
    /\ consumed[1].owner = "Aetheria_AI" /\ consumed[1].member_responses
    /\ emitted[1].type = "content" /\ emitted[1].is_log
    /\ consumed[2].owner = "Aetheria_AI" /\ ~consumed[2].member_responses
    /\ emitted[2].type = "content" /\ ~emitted[2].is_log
    /\ consumed[3].owner = "planner"
    /\ emitted[3].type = "content" /\ emitted[3].is_log
    /\ emitted[4].type = "tool_start" /\ emitted[4].tool_name = "web_search"

\* C24: per turn the terminal events are mutually exclusive and last: the
\* turn never emits both done and error, and it emits nothing after its done
\* or its error event, also when the usage metrics fail to persist after done.
C24_TerminalEventExclusiveAndLast ==
    /\ ~(DoneCount >= 1 /\ ErrorCount >= 1)
    /\ \A i \in DOMAIN emitted :
          emitted[i].type \in {"done", "error"} => i = Len(emitted)

\* C24 (case): the run was drained, done was emitted, the request_logs
\* insert raised, and the turn has returned with an error event after done.
C24_ErrorAfterDone ==
    /\ streamPc = "finished"
    /\ Len(emitted) >= 2
    /\ emitted[Len(emitted) - 1].type = "done"
    /\ emitted[Len(emitted)].type = "error"
    /\ request_logs = <<>>

\* The kind of client event a chunk stands for ("none": not relayed).
C10_Kind(chunk) ==
    IF ~chunk.has_event THEN "none"
    ELSE IF chunk.event \in {"RunContent", "TeamRunContent"} THEN "content"
    ELSE IF chunk.event \in {"ToolCallStarted", "TeamToolCallStarted"} THEN "tool_start"
    ELSE IF chunk.event \in {"ToolCallCompleted", "TeamToolCallCompleted"} THEN "tool_end"
    ELSE "none"

C10_Relayed(chunk) == C10_Kind(chunk) # "none"
C10_Visible(event) == event.type \in {"content", "tool_start", "tool_end"}

\* C10: the content / tool_start / tool_end events emitted for the message
\* id are, one per such chunk, in the order the run produced the chunks, and
\* done comes after all of them; a turn that ends without an error has
\* emitted exactly these events followed by done and has persisted the usage
\* metrics once when the run reported any, never more than once.
C10_SourceOrderThenDone ==
    LET vis == SelectSeq(emitted, C10_Visible)
        src == SelectSeq(consumed, C10_Relayed)
    IN  /\ Len(vis) = Len(src)
        /\ \A i \in DOMAIN vis :
              /\ vis[i].type = C10_Kind(src[i])
              /\ vis[i].agent_name = src[i].owner
              /\ vis[i].id = MessageId
        /\ \A i, j \in DOMAIN emitted :
              (emitted[i].type = "done" /\ C10_Visible(emitted[j])) => j < i
        /\ Len(request_logs) <= 1
        /\ (streamPc = "finished" /\ \A i \in DOMAIN emitted : emitted[i].type # "error") =>
              /\ emitted = Append(vis, DoneEvent)
              /\ Len(request_logs) =
                    IF \E i \in DOMAIN consumed :
                          /\ consumed[i].team_run_output
                          /\ consumed[i].input_tokens + consumed[i].output_tokens > 0
                          /\ \A j \in DOMAIN consumed :
                                j > i => ~consumed[j].team_run_output
                    THEN 1 ELSE 0

\* The run yielded a log content chunk, a final content chunk, a tool_start
\* / tool_end pair and its output with 120 / 45 tokens: four events in that
\* order, then done, and one request_logs row.
C10_ScenarioFourEvents ==
    /\ streamPc = "finished"
    /\ Len(consumed) = 5
    /\ [i \in DOMAIN emitted |-> emitted[i].type] =
          <<"content", "content", "tool_start", "tool_end", "done">>
    /\ emitted[1].is_log
    /\ ~emitted[2].is_log
    /\ request_logs = <<[input_tokens |-> 120, output_tokens |-> 45]>>

\* C37: while a turn is relayed, the task calls socketio.sleep(0) right
\* after every event it emits, tool_start and tool_end events as well as
\* content events, so a yield lies between any two consecutive emits of the
\* turn.
C37_YieldAfterEveryPush ==
    \A i \in DOMAIN emitted : i < Len(emitted) => slept[i]

\* The turn is over and its tool_start and tool_end events went out one
\* after the other, and the done event after them, without a yield.
C37_ToolEventsBackToBack ==
    /\ streamPc = "finished"
    /\ [i \in DOMAIN emitted |-> emitted[i].type] = <<"content", "tool_start", "tool_end", "done">>
    /\ slept = <<TRUE, FALSE, FALSE, FALSE>>

====
